---- MODULE Spec2Model ----
(***************************************************************************)
(* State-machine model of the on-chain OrgChart engine:                    *)
(*   MultiSignable / OrgChart        (base block check, signer recovery)   *)
(*   BitVectorOrgChart               (hasRole, grantRole, revokeRole,      *)
(*                                    rule fulfillment)                    *)
(*   DynamicBitVectorOrgChart        (addRole, removeRole)                 *)
(*                                                                         *)
(* Bit vectors are naturals of WordBits bits (the contract uses uint256;   *)
(* the width is scaled down, every operation is kept).  A transaction that *)
(* reverts leaves no trace on chain, so an action is enabled exactly for   *)
(* the inputs that pass every `require`; the operators ...Outcome give the *)
(* revert reason of a call for every input.                                *)
(***************************************************************************)
EXTENDS Integers, Sequences, FiniteSets, TLC

(***************************************************************************)
(* Program constants                                                       *)
(***************************************************************************)
\* width of a role-flag bit vector (uint256 in the contracts, scaled)
WordBits == 8
\* OrgChart.LOOK_BACK_LENGTH
LOOK_BACK_LENGTH == 3
\* OrgChart.MAX_NUM_SIGNERS
MAX_NUM_SIGNERS == 100
\* DynamicBitVectorOrgChart.MAX_NUM_RULES
MAX_NUM_RULES == 10
\* width of a role id inside a bytes32 word (30 bytes in the contracts, scaled)
ROLE_ID_BITS == 4
\* width of the quantity byte of an atom
QTY_BITS == 8

(***************************************************************************)
(* Bounds of the model                                                     *)
(***************************************************************************)
\* user addresses are 1..NumUsers; address(0) is 0
NumUsers == 2
\* role ids known to clients are 1..NumRoleIds
NumRoleIds == 5
\* highest block number the chain reaches
MaxHeight == 5
\* most signatures carried by an approval that is submitted
MaxSigs == 1
\* most bits set in the seniorFlags / juniorFlags of a submitted role definition
MaxEdgeBits == 1
\* role flags handed out (at construction and by addRole) before clients stop
\* submitting addRole
MaxRoleSlots == 5
\* roles removed before clients stop submitting removeRole
MaxRemovals == 1
\* flags ever handed out in the administration-only specification
MaxDeepSlots == 6

(***************************************************************************)
(* 256-bit integer primitives (on WordBits bits)                           *)
(***************************************************************************)
WordMax == 2^WordBits - 1
Word == 0..WordMax
PureFlags == {2^i : i \in 0..(WordBits - 1)}

RECURSIVE AndBits(_, _)
AndBits(a, b) ==
    IF a = 0 \/ b = 0 THEN 0
    ELSE (a % 2) * (b % 2) + 2 * AndBits(a \div 2, b \div 2)

RECURSIVE OrBits(_, _)
OrBits(a, b) ==
    IF a = 0 THEN b
    ELSE IF b = 0 THEN a
    ELSE (IF a % 2 = 1 \/ b % 2 = 1 THEN 1 ELSE 0) + 2 * OrBits(a \div 2, b \div 2)

RECURSIVE XorBits(_, _)
XorBits(a, b) ==
    IF a = 0 THEN b
    ELSE IF b = 0 THEN a
    ELSE ((a + b) % 2) + 2 * XorBits(a \div 2, b \div 2)

\* the three operations tabulated once over all pairs of words
AndTable == [a \in Word |-> [b \in Word |-> AndBits(a, b)]]
OrTable == [a \in Word |-> [b \in Word |-> OrBits(a, b)]]
XorTable == [a \in Word |-> [b \in Word |-> XorBits(a, b)]]

\* a & b, a | b, a ^ b
BitAnd(a, b) == AndTable[a][b]
BitOr(a, b) == OrTable[a][b]
BitXor(a, b) == XorTable[a][b]

\* ~a
BitNot(a) == WordMax - a

RECURSIVE PopCount(_)
PopCount(a) == IF a = 0 THEN 0 ELSE (a % 2) + PopCount(a \div 2)

\* the flags (powers of two) set in a bit vector
FlagsOf(m) == {f \in PureFlags : BitAnd(m, f) # 0}

(***************************************************************************)
(* Primitives: keccak-256 and ECDSA recovery                               *)
(*                                                                         *)
(* keccak256 is collision free for the contract's purposes: the hash of a  *)
(* value is modelled by the tagged value itself.  A signature is the pair  *)
(* of its signer and the hash it was produced over; ecrecover returns the  *)
(* signer for that hash, and an address nobody controls for another hash.  *)
(***************************************************************************)
Users == 1..NumUsers
\* address recovered from a signature that was made over another hash
StrangerAddr == NumUsers + 1
Addresses == 0..StrangerAddr

GRANT_HASH == "grant"
REVOKE_HASH == "revoke"
ADMIN_HASH == "admin"

\* a recovery that names the signer whatever message was signed
ecrecoverAnyMessage(targetHash, s) == s.signer

ecrecover(targetHash, s) ==
    IF s.over = targetHash THEN s.signer ELSE StrangerAddr

\* blockhash(n) as seen from a transaction in block `height`: 0 for the
\* current block, a future block and (not reachable here) blocks older than
\* 256; the hash of block n is written n + 1
blockhash(height, n) == IF n >= 0 /\ n < height THEN n + 1 ELSE 0

(***************************************************************************)
(* Atoms: one bytes32 word, MSB -> LSB: modifier flags | quantity | role id *)
(***************************************************************************)
QTY_SHIFT == ROLE_ID_BITS
FLAG_SHIFT == ROLE_ID_BITS + QTY_BITS
ATOM_FLAG_STRICT == 2^FLAG_SHIFT
ATOM_FLAG_REL_QTY == 2 * 2^FLAG_SHIFT
\* roleIdMask = ~(0xffff << 240): the role id of an atom
AtomRoleId(atom) == atom % 2^ROLE_ID_BITS
AtomQty(atom) == (atom \div 2^QTY_SHIFT) % 2^QTY_BITS
AtomIsStrict(atom) == (atom \div ATOM_FLAG_STRICT) % 2 = 1
AtomIsRelative(atom) == (atom \div ATOM_FLAG_REL_QTY) % 2 = 1
\* OrgChartAnalysis.encodeRuleAtom
encodeRuleAtom(roleId, n, isStrict, isRelative) ==
    roleId + n * 2^QTY_SHIFT
    + ((IF isStrict THEN 1 ELSE 0) + (IF isRelative THEN 2 ELSE 0)) * 2^FLAG_SHIFT

(***************************************************************************)
(* State of a deployed DynamicBitVectorOrgChart                            *)
(***************************************************************************)
VARIABLES
    roleId2Flag,            \* role id -> role flag (0: unknown role)
    roleFlag2Mask,          \* role flag -> structure mask
    roleFlag2JuniorMask,    \* role flag -> mask of the direct juniors
    roleIdx2Flag,           \* index -> role flag, reverse-topological order
    numOfActiveRoles,       \* length of the used prefix of roleIdx2Flag
    user2Roles,             \* user -> directly assigned role flags
    ruleHashToRoleFlags,    \* rule hash -> flags of the roles it is a rule of
    roleIdToNOAssignments,  \* role id -> number of direct assignments
    activeRoleFlags,        \* flags of the active roles
    freeRoleFlags,          \* flags available to addRole
    blockNumber,            \* block.number of the next transaction
    retiredFlags,           \* history: flags of the roles removed so far
    \* the chart generator's DirectedGraph.getTopologicalOrder
    adjLists,               \* node -> list of the nodes it has an edge to
    tempInDeg,              \* node -> in-degree among the nodes not yet listed
    heap,                   \* the MinHeap: heap, mapping, currentSize
    topologicalOrder,       \* the local `order`: the nodes listed so far
    sortResult              \* "idle", "running", "order", "Nothing" or "Error"

vars == <<roleId2Flag, roleFlag2Mask, roleFlag2JuniorMask, roleIdx2Flag,
          numOfActiveRoles, user2Roles, ruleHashToRoleFlags,
          roleIdToNOAssignments, activeRoleFlags, freeRoleFlags, blockNumber,
          retiredFlags, adjLists, tempInDeg, heap, topologicalOrder,
          sortResult>>

\* the generator's variables: transactions of the contract leave them alone
sortVars == <<adjLists, tempInDeg, heap, topologicalOrder, sortResult>>
\* the generator has no graph in work
GeneratorIdle ==
    /\ adjLists = <<>>
    /\ tempInDeg = <<>>
    /\ heap = [heap |-> <<>>, mapping |-> <<>>, currentSize |-> 0, error |-> ""]
    /\ topologicalOrder = <<>>
    /\ sortResult = "idle"

\* role ids are the low ROLE_ID_BITS bits of a bytes32 word
RoleIdWords == 0..(2^ROLE_ID_BITS - 1)
RoleIds == 1..NumRoleIds
\* a mapping read at a key that was never written is 0
RuleFlagsOf(ruleHash) ==
    IF ruleHash \in DOMAIN ruleHashToRoleFlags
    THEN ruleHashToRoleFlags[ruleHash] ELSE 0
FlagOfRoleId(roleId) ==
    IF roleId \in DOMAIN roleId2Flag THEN roleId2Flag[roleId] ELSE 0

(***************************************************************************)
(* BitVectorOrgChart: inheritance oracle                                   *)
(***************************************************************************)
RECURSIVE GetPureSearch(_, _, _)
GetPureSearch(mask, piv, shift) ==
    IF shift > 0
    THEN IF BitAnd(piv, mask) # 0
         THEN piv
         ELSE LET s == shift \div 2
              IN GetPureSearch(mask,
                               IF piv > mask THEN piv \div 2^s
                               ELSE (piv * 2^s) % 2^WordBits,
                               s)
    ELSE 0

\* a flag extraction that answers with the first pivot instead of searching
getPureFirstPivot(mask) ==
    IF mask = 0 THEN 0
    ELSE IF BitAnd(mask, mask - 1) = 0 THEN mask
    ELSE 2^(WordBits \div 2)

_getPure(mask) ==
    IF mask = 0 THEN 0
    ELSE IF BitAnd(mask, mask - 1) = 0 THEN mask
    ELSE GetPureSearch(mask, 2^(WordBits \div 2), WordBits \div 2)

\* _buildStructureMask over an explicit flag -> mask mapping (removeRole calls
\* it while it is rewriting roleFlag2Mask)
RECURSIVE BuildStructureMaskIn(_, _, _)
BuildStructureMaskIn(maskOf, roleFlags, mask) ==
    IF roleFlags # 0
    THEN LET role == _getPure(roleFlags)
         IN BuildStructureMaskIn(maskOf, BitXor(roleFlags, role),
                                 BitOr(mask, maskOf[role]))
    ELSE mask

\* a structure mask that stops at the given flags and leaves their juniors out
buildStructureMaskDirectOnly(roleFlags) == roleFlags

_buildStructureMask(roleFlags) == BuildStructureMaskIn(roleFlag2Mask, roleFlags, 0)

UserRoleFlags(user) ==
    BitAnd(IF user \in DOMAIN user2Roles THEN user2Roles[user] ELSE 0,
           activeRoleFlags)

\* hasRole / strictlyHasRole revert with "Unknown role" when the role id has no
\* flag; the ...Known operators say whether the call returns at all
RoleKnown(roleId) == FlagOfRoleId(roleId) # 0

\* a hasRole that only counts authority inherited from the other roles held
hasRoleInheritedOnly(user, roleId) ==
    LET requiredRoleFlag == FlagOfRoleId(roleId)
        userRoleFlags == BitAnd(UserRoleFlags(user), BitNot(requiredRoleFlag))
    IN IF userRoleFlags = 0 THEN FALSE
       ELSE BitAnd(_buildStructureMask(userRoleFlags), requiredRoleFlag)
            = requiredRoleFlag

hasRole(user, roleId) ==
    LET requiredRoleFlag == FlagOfRoleId(roleId)
        userRoleFlags == UserRoleFlags(user)
    IN IF BitAnd(userRoleFlags, requiredRoleFlag) = requiredRoleFlag THEN TRUE
       ELSE IF userRoleFlags = 0 THEN FALSE
       ELSE BitAnd(_buildStructureMask(userRoleFlags), requiredRoleFlag)
            = requiredRoleFlag

strictlyHasRole(user, roleId) ==
    LET requiredRoleFlag == FlagOfRoleId(roleId)
        userRoleFlags == UserRoleFlags(user)
    IN BitAnd(userRoleFlags, requiredRoleFlag) = requiredRoleFlag

(***************************************************************************)
(* OrgChart / MultiSignable: approvals                                     *)
(*                                                                         *)
(* approval = [sig, atoms, assignment, selfSignRequired, baseBlockHash]    *)
(* with sig a sequence of [signer, over], assignment 0-based atom indices. *)
(***************************************************************************)
OK == "ok"
\* Solidity 0.8 Panic (checked arithmetic, array index out of bounds)
PANIC == "Panic"
ERR_BASE_BLOCK == "Signature out-dated or not valid on this fork. Reeisue a new signature"
ERR_TOO_MANY_SIGNERS == "To many signers! Cannot process"
ERR_UNSORTED == "Signers need to be sorted in ascending order"
ERR_UNKNOWN_ROLE == "Unknown role"
ERR_INVALID_RULE == "Invalid rule"
ERR_MISSING_SELF_SIGN == "Missing signature of nominee"
ERR_UNEXPECTED_SELF_SIGN == "Nominee is not expected to sign"
ERR_INVALID_ASSIGNMENT == "Invalid assignment"
ERR_PERMISSION == "Invalid assignment: At least one signer does not have the specified role"
ERR_NOT_ENOUGH_SIGNERS == "Not enough signers have signed the request"

DOMAIN_SEPARATOR == <<"EIP712Domain", "OrgChart", "1">>

_isValidBaseBlock(baseBlockHash) ==
    \E i \in 1..LOOK_BACK_LENGTH :
        /\ blockNumber - i >= 0
        /\ blockhash(blockNumber, blockNumber - i) = baseBlockHash

\* `block.number - i` is checked arithmetic: the loop panics when it passes 0
\* before a matching block was found
BaseBlockPanics(baseBlockHash) ==
    \E i \in 1..LOOK_BACK_LENGTH :
        /\ blockNumber - i < 0
        /\ \A j \in 1..(i - 1) :
               blockhash(blockNumber, blockNumber - j) # baseBlockHash

\* modifier onlyValidApprovals (its third require compares sig.length with
\* itself and never fails)
onlyValidApprovals(approval) ==
    IF BaseBlockPanics(approval.baseBlockHash) THEN PANIC
    ELSE IF ~_isValidBaseBlock(approval.baseBlockHash) THEN ERR_BASE_BLOCK
    ELSE IF ~(Len(approval.sig) <= MAX_NUM_SIGNERS) THEN ERR_TOO_MANY_SIGNERS
    ELSE OK

_wrapAsEthSignedMessage(txHash) ==
    <<"\\x19Ethereum Signed Message:\\n32", <<"\\x19\\x01", DOMAIN_SEPARATOR, txHash>>>>

_computeUserManagementReqHash(nominee, action, roleId, baseBlockHash) ==
    _wrapAsEthSignedMessage(
        <<"UserManagementRequest", nominee, action, roleId, baseBlockHash>>)

_computeRuleHash(approval, action) ==
    <<"Rule", action, approval.selfSignRequired, approval.atoms>>

\* getSigners: [ok, selfSigned, signers]; ok = FALSE is the revert
\* "Signers need to be sorted in ascending order", raised by the first
\* signature whose signer is not above the one before it (address(0) at
\* the start); selfSigned and signers are what the loop has gathered when
\* it runs to its end
\* a signer recovery that takes the signatures in any order
getSignersAnyOrder(sig, nominee, targetHash) ==
    [ok |-> TRUE,
     selfSigned |-> \E i \in 1..Len(sig) : ecrecover(targetHash, sig[i]) = nominee,
     signers |-> [i \in 1..Len(sig) |-> ecrecover(targetHash, sig[i])]]

getSigners(sig, nominee, targetHash) ==
    LET recovered == [i \in 1..Len(sig) |-> ecrecover(targetHash, sig[i])]
        lastAdd == [i \in 1..Len(sig) |-> IF i = 1 THEN 0 ELSE recovered[i - 1]]
    IN [ok |-> \A i \in 1..Len(sig) : recovered[i] > lastAdd[i],
        selfSigned |-> \E i \in 1..Len(sig) : recovered[i] = nominee,
        signers |-> recovered]

\* the percentage rounded down, without the clamp
absNumberOfRequiredSignersFloor(base, perc) == (base * perc) \div 100

_getAbsNumberOfRequiredSigners(base, perc) ==
    LET req0 == base * perc
        req == (req0 \div 100) + (IF req0 % 100 > 0 THEN 1 ELSE 0)
    IN IF req > MAX_NUM_SIGNERS THEN MAX_NUM_SIGNERS
       ELSE IF req < 1 THEN 1
       ELSE req

NOAssignmentsOf(roleId) ==
    IF roleId \in DOMAIN roleIdToNOAssignments
    THEN roleIdToNOAssignments[roleId] ELSE 0

\* a signer check that lets inherited authority pass for strict atoms too
FulfillmentSignerCheckNeverStrict(nominee, signers, atoms, assignment, i) ==
    IF i > Len(signers) THEN PANIC
    ELSE IF signers[i] = nominee THEN OK
    ELSE IF ~(Len(atoms) > assignment[i]) THEN ERR_INVALID_ASSIGNMENT
    ELSE LET atom == atoms[assignment[i] + 1]
         IN IF ~RoleKnown(AtomRoleId(atom)) THEN ERR_UNKNOWN_ROLE
            ELSE IF hasRole(signers[i], AtomRoleId(atom))
            THEN OK ELSE ERR_PERMISSION

\* a signer check that passes over a signer assigned to no atom of the rule
FulfillmentSignerCheckAnyIndex(nominee, signers, atoms, assignment, i) ==
    IF i > Len(signers) THEN PANIC
    ELSE IF signers[i] = nominee THEN OK
    ELSE IF ~(Len(atoms) > assignment[i]) THEN OK
    ELSE LET atom == atoms[assignment[i] + 1]
         IN IF ~RoleKnown(AtomRoleId(atom)) THEN ERR_UNKNOWN_ROLE
            ELSE IF AtomIsStrict(atom)
            THEN (IF strictlyHasRole(signers[i], AtomRoleId(atom))
                  THEN OK ELSE ERR_PERMISSION)
            ELSE (IF hasRole(signers[i], AtomRoleId(atom))
                  THEN OK ELSE ERR_PERMISSION)

\* first loop of _requireRuleFulfillment, iteration i (1-based here)
FulfillmentSignerCheck(nominee, signers, atoms, assignment, i) ==
    IF i > Len(signers) THEN PANIC
    ELSE IF signers[i] = nominee THEN OK
    ELSE IF ~(Len(atoms) > assignment[i]) THEN ERR_INVALID_ASSIGNMENT
    ELSE LET atom == atoms[assignment[i] + 1]
         IN IF ~RoleKnown(AtomRoleId(atom)) THEN ERR_UNKNOWN_ROLE
            ELSE IF AtomIsStrict(atom)
            THEN (IF strictlyHasRole(signers[i], AtomRoleId(atom))
                  THEN OK ELSE ERR_PERMISSION)
            ELSE (IF hasRole(signers[i], AtomRoleId(atom))
                  THEN OK ELSE ERR_PERMISSION)

\* a count that credits every signer to every atom
FulfillmentCountAnyAtom(nominee, signers, assignment, idx) ==
    Cardinality({i \in 1..Len(assignment) : signers[i] # nominee})

\* cnt[idx] once the first loop has run to its end
FulfillmentCount(nominee, signers, assignment, idx) ==
    Cardinality({i \in 1..Len(assignment) :
                    signers[i] # nominee /\ assignment[i] = idx})

\* second loop of _requireRuleFulfillment: the quantity atom i (1-based) asks for
RequiredQty(atom) ==
    IF AtomIsRelative(atom)
    THEN _getAbsNumberOfRequiredSigners(NOAssignmentsOf(AtomRoleId(atom)),
                                        AtomQty(atom))
    ELSE AtomQty(atom)

\* a fulfillment check that compares the quantity of the first atom only
requireRuleFulfillmentFirstAtomOnly(nominee, signers, atoms, assignment) ==
    LET failing == {i \in 1..Len(assignment) :
                       FulfillmentSignerCheck(nominee, signers, atoms,
                                              assignment, i) # OK}
    IN IF failing # {}
       THEN FulfillmentSignerCheck(nominee, signers, atoms, assignment,
                CHOOSE i \in failing : \A j \in failing : i <= j)
       ELSE IF \E i \in 1..Len(atoms) :
                  /\ i = 1
                  /\ ~(FulfillmentCount(nominee, signers, assignment, i - 1)
                         >= RequiredQty(atoms[i]))
       THEN ERR_NOT_ENOUGH_SIGNERS
       ELSE OK

_requireRuleFulfillment(nominee, signers, atoms, assignment) ==
    LET failing == {i \in 1..Len(assignment) :
                       FulfillmentSignerCheck(nominee, signers, atoms,
                                              assignment, i) # OK}
    IN IF failing # {}
       THEN FulfillmentSignerCheck(nominee, signers, atoms, assignment,
                CHOOSE i \in failing : \A j \in failing : i <= j)
       ELSE IF \E i \in 1..Len(atoms) :
                  ~(FulfillmentCount(nominee, signers, assignment, i - 1)
                      >= RequiredQty(atoms[i]))
       THEN ERR_NOT_ENOUGH_SIGNERS
       ELSE OK

\* a request check that accepts every rule body, registered or not
requireValidRequestAnyRule(approval, action, nominee, roleId) ==
    LET roleFlag == FlagOfRoleId(roleId)
        res == getSigners(approval.sig, nominee,
                   _computeUserManagementReqHash(nominee, action, roleId,
                                                 approval.baseBlockHash))
    IN IF roleFlag = 0 THEN ERR_UNKNOWN_ROLE
       ELSE IF ~res.ok THEN ERR_UNSORTED
       ELSE IF res.selfSigned # approval.selfSignRequired
       THEN (IF approval.selfSignRequired THEN ERR_MISSING_SELF_SIGN
             ELSE ERR_UNEXPECTED_SELF_SIGN)
       ELSE _requireRuleFulfillment(nominee, res.signers, approval.atoms,
                                    approval.assignment)

\* a request check that does not compare the nominee's signature with the rule
requireValidRequestAnySelfSign(approval, action, nominee, roleId) ==
    LET roleFlag == FlagOfRoleId(roleId)
        ruleHash == _computeRuleHash(approval, action)
        res == getSigners(approval.sig, nominee,
                   _computeUserManagementReqHash(nominee, action, roleId,
                                                 approval.baseBlockHash))
    IN IF roleFlag = 0 THEN ERR_UNKNOWN_ROLE
       ELSE IF BitAnd(RuleFlagsOf(ruleHash), roleFlag) # roleFlag
       THEN ERR_INVALID_RULE
       ELSE IF ~res.ok THEN ERR_UNSORTED
       ELSE _requireRuleFulfillment(nominee, res.signers, approval.atoms,
                                    approval.assignment)

_requireValidRequest(approval, action, nominee, roleId) ==
    LET roleFlag == FlagOfRoleId(roleId)
        ruleHash == _computeRuleHash(approval, action)
        res == getSigners(approval.sig, nominee,
                   _computeUserManagementReqHash(nominee, action, roleId,
                                                 approval.baseBlockHash))
    IN IF roleFlag = 0 THEN ERR_UNKNOWN_ROLE
       ELSE IF BitAnd(RuleFlagsOf(ruleHash), roleFlag) # roleFlag
       THEN ERR_INVALID_RULE
       ELSE IF ~res.ok THEN ERR_UNSORTED
       ELSE IF res.selfSigned # approval.selfSignRequired
       THEN (IF approval.selfSignRequired THEN ERR_MISSING_SELF_SIGN
             ELSE ERR_UNEXPECTED_SELF_SIGN)
       ELSE _requireRuleFulfillment(nominee, res.signers, approval.atoms,
                                    approval.assignment)

(***************************************************************************)
(* BitVectorOrgChart: user management                                      *)
(***************************************************************************)
\* the revert reason of grantRole(approval, nominee, roleId), or OK
GrantRoleOutcome(approval, nominee, roleId) ==
    LET modifier == onlyValidApprovals(approval)
    IN IF modifier # OK THEN modifier
       ELSE _requireValidRequest(approval, GRANT_HASH, nominee, roleId)

\* a grantRole whose writes are not preceded by the checks
grantRoleUnchecked(approval, nominee, roleId) ==
    /\ LET roleFlag == roleId2Flag[roleId]
       IN IF BitAnd(user2Roles[nominee], roleFlag) = 0
          THEN /\ user2Roles' = [user2Roles EXCEPT
                                   ![nominee] = BitOr(@, roleFlag)]
               /\ roleIdToNOAssignments' =
                      [roleIdToNOAssignments EXCEPT ![roleId] = @ + 1]
          ELSE UNCHANGED <<user2Roles, roleIdToNOAssignments>>
    /\ UNCHANGED <<roleId2Flag, roleFlag2Mask, roleFlag2JuniorMask,
                   roleIdx2Flag, numOfActiveRoles, ruleHashToRoleFlags,
                   activeRoleFlags, freeRoleFlags, blockNumber, retiredFlags>>

\* a grantRole that hands out the junior roles along with the role
grantRoleWithJuniors(approval, nominee, roleId) ==
    /\ GrantRoleOutcome(approval, nominee, roleId) = OK
    /\ LET roleFlag == roleId2Flag[roleId]
       IN IF BitAnd(user2Roles[nominee], roleFlag) = 0
          THEN /\ user2Roles' = [user2Roles EXCEPT
                                   ![nominee] = BitOr(@, roleFlag2Mask[roleFlag])]
               /\ roleIdToNOAssignments' =
                      [roleIdToNOAssignments EXCEPT ![roleId] = @ + 1]
          ELSE UNCHANGED <<user2Roles, roleIdToNOAssignments>>
    /\ UNCHANGED <<roleId2Flag, roleFlag2Mask, roleFlag2JuniorMask,
                   roleIdx2Flag, numOfActiveRoles, ruleHashToRoleFlags,
                   activeRoleFlags, freeRoleFlags, blockNumber, retiredFlags>>

\* a grantRole that counts an assignment whether or not the nominee already
\* holds the role
grantRoleAlwaysCounts(approval, nominee, roleId) ==
    /\ GrantRoleOutcome(approval, nominee, roleId) = OK
    /\ user2Roles' = [user2Roles EXCEPT
                        ![nominee] = BitOr(@, roleId2Flag[roleId])]
    /\ roleIdToNOAssignments' =
           [roleIdToNOAssignments EXCEPT ![roleId] = @ + 1]
    /\ UNCHANGED <<roleId2Flag, roleFlag2Mask, roleFlag2JuniorMask,
                   roleIdx2Flag, numOfActiveRoles, ruleHashToRoleFlags,
                   activeRoleFlags, freeRoleFlags, blockNumber, retiredFlags>>

grantRole(approval, nominee, roleId) ==
    /\ GrantRoleOutcome(approval, nominee, roleId) = OK
    /\ LET roleFlag == roleId2Flag[roleId]
       IN IF BitAnd(user2Roles[nominee], roleFlag) = 0
          THEN /\ user2Roles' = [user2Roles EXCEPT
                                   ![nominee] = BitOr(@, roleFlag)]
               /\ roleIdToNOAssignments' =
                      [roleIdToNOAssignments EXCEPT ![roleId] = @ + 1]
          ELSE UNCHANGED <<user2Roles, roleIdToNOAssignments>>
    /\ UNCHANGED <<roleId2Flag, roleFlag2Mask, roleFlag2JuniorMask,
                   roleIdx2Flag, numOfActiveRoles, ruleHashToRoleFlags,
                   activeRoleFlags, freeRoleFlags, blockNumber, retiredFlags>>

\* `roleIdToNOAssignments[roleId]--` is checked arithmetic
RevokeRoleOutcome(approval, nominee, roleId) ==
    LET modifier == onlyValidApprovals(approval)
        request == _requireValidRequest(approval, REVOKE_HASH, nominee, roleId)
        roleFlag == FlagOfRoleId(roleId)
    IN IF modifier # OK THEN modifier
       ELSE IF request # OK THEN request
       ELSE IF /\ BitAnd(user2Roles[nominee], roleFlag) = roleFlag
               /\ roleIdToNOAssignments[roleId] = 0
       THEN PANIC
       ELSE OK

\* a revokeRole that clears and uncounts whether or not the nominee holds the
\* role directly
revokeRoleAlwaysClears(approval, nominee, roleId) ==
    /\ RevokeRoleOutcome(approval, nominee, roleId) = OK
    /\ user2Roles' = [user2Roles EXCEPT
                        ![nominee] = BitAnd(@, BitNot(roleFlag2Mask[roleId2Flag[roleId]]))]
    /\ roleIdToNOAssignments' =
           [roleIdToNOAssignments EXCEPT ![roleId] = IF @ > 0 THEN @ - 1 ELSE 0]
    /\ UNCHANGED <<roleId2Flag, roleFlag2Mask, roleFlag2JuniorMask,
                   roleIdx2Flag, numOfActiveRoles, ruleHashToRoleFlags,
                   activeRoleFlags, freeRoleFlags, blockNumber, retiredFlags>>

revokeRole(approval, nominee, roleId) ==
    /\ RevokeRoleOutcome(approval, nominee, roleId) = OK
    /\ LET roleFlag == roleId2Flag[roleId]
       IN IF BitAnd(user2Roles[nominee], roleFlag) = roleFlag
          THEN /\ user2Roles' = [user2Roles EXCEPT
                                   ![nominee] = BitAnd(@, BitNot(roleFlag))]
               /\ roleIdToNOAssignments' =
                      [roleIdToNOAssignments EXCEPT ![roleId] = @ - 1]
          ELSE UNCHANGED <<user2Roles, roleIdToNOAssignments>>
    /\ UNCHANGED <<roleId2Flag, roleFlag2Mask, roleFlag2JuniorMask,
                   roleIdx2Flag, numOfActiveRoles, ruleHashToRoleFlags,
                   activeRoleFlags, freeRoleFlags, blockNumber, retiredFlags>>

(***************************************************************************)
(* DynamicBitVectorOrgChart: addRole / removeRole                          *)
(*                                                                         *)
(* roleDef = [roleId, roleFlag, seniorFlags, juniorFlags, ruleHashes]      *)
(***************************************************************************)
ERR_SELF_SIGN_ADMIN == "Self-sign not allowed for admin-rules"
ERR_FLAG_MALFORMED == "Only one bit is allowed to be set to 1"
ERR_FLAG_TAKEN == "Role flag already taken"
ERR_ROLE_ID_MALFORMED == "Role id is only allowed to take up the first 30 bytes"
ERR_ROLE_ID_TAKEN == "Role id already taken"
ERR_SENIORS_MISSING == "One or more senior roles do not exist"
ERR_JUNIORS_MISSING == "One or more junior roles do not exist"
ERR_TOO_MANY_RULES == "Maximum number of rules exceeded"
ERR_INVALID_ADMIN_RULE == "Invalid admin-rule"
ERR_CYCLE == "Cycle detected"
ERR_NO_ROLE == "Role does not exist"

\* a role definition check that does not look whether the flag is still free
requireValidRoleDefAnyFlag(roleDef) ==
    IF roleDef.roleFlag = 0 THEN PANIC
    ELSE IF BitAnd(roleDef.roleFlag, roleDef.roleFlag - 1) # 0
    THEN ERR_FLAG_MALFORMED
    ELSE IF roleDef.roleId % 2^ROLE_ID_BITS # roleDef.roleId
    THEN ERR_ROLE_ID_MALFORMED
    ELSE IF FlagOfRoleId(roleDef.roleId) # 0
    THEN ERR_ROLE_ID_TAKEN
    ELSE IF BitAnd(roleDef.seniorFlags, BitNot(freeRoleFlags)) # roleDef.seniorFlags
    THEN ERR_SENIORS_MISSING
    ELSE IF BitAnd(roleDef.juniorFlags, BitNot(freeRoleFlags)) # roleDef.juniorFlags
    THEN ERR_JUNIORS_MISSING
    ELSE IF ~(Len(roleDef.ruleHashes) < MAX_NUM_RULES)
    THEN ERR_TOO_MANY_RULES
    ELSE OK

_requireValidRoleDef(roleDef) ==
    IF roleDef.roleFlag = 0 THEN PANIC
    ELSE IF BitAnd(roleDef.roleFlag, roleDef.roleFlag - 1) # 0
    THEN ERR_FLAG_MALFORMED
    ELSE IF ~(BitAnd(roleDef.roleFlag, freeRoleFlags) # 0)
    THEN ERR_FLAG_TAKEN
    ELSE IF roleDef.roleId % 2^ROLE_ID_BITS # roleDef.roleId
    THEN ERR_ROLE_ID_MALFORMED
    ELSE IF FlagOfRoleId(roleDef.roleId) # 0
    THEN ERR_ROLE_ID_TAKEN
    ELSE IF BitAnd(roleDef.seniorFlags, BitNot(freeRoleFlags)) # roleDef.seniorFlags
    THEN ERR_SENIORS_MISSING
    ELSE IF BitAnd(roleDef.juniorFlags, BitNot(freeRoleFlags)) # roleDef.juniorFlags
    THEN ERR_JUNIORS_MISSING
    ELSE IF ~(Len(roleDef.ruleHashes) < MAX_NUM_RULES)
    THEN ERR_TOO_MANY_RULES
    ELSE OK

_computeAddRoleReqHash(roleDef, baseBlockHash) ==
    _wrapAsEthSignedMessage(
        <<"AddRoleRequest", roleDef.roleId, roleDef.roleFlag,
          roleDef.seniorFlags, roleDef.juniorFlags,
          <<"keccak256", roleDef.ruleHashes>>, baseBlockHash>>)

_computeRemoveRoleReqHash(roleId, baseBlockHash) ==
    _wrapAsEthSignedMessage(<<"RemoveRoleRequest", roleId, baseBlockHash>>)

\* an admin request check that accepts every rule body
requireValidAdminRequestAnyRule(approval, targetHash) ==
    LET res == getSigners(approval.sig, 0, targetHash)
    IN IF ~res.ok THEN ERR_UNSORTED
       ELSE _requireRuleFulfillment(0, res.signers, approval.atoms,
                                    approval.assignment)

_requireValidAdminRequest(approval, targetHash) ==
    LET ruleHash == _computeRuleHash(approval, ADMIN_HASH)
        res == getSigners(approval.sig, 0, targetHash)
    IN IF RuleFlagsOf(ruleHash) # WordMax THEN ERR_INVALID_ADMIN_RULE
       ELSE IF ~res.ok THEN ERR_UNSORTED
       ELSE _requireRuleFulfillment(0, res.signers, approval.atoms,
                                    approval.assignment)

_requireValidAddRoleRequest(approval, roleDef) ==
    _requireValidAdminRequest(approval,
        _computeAddRoleReqHash(roleDef, approval.baseBlockHash))

_requireValidRemoveRequest(approval, roleId) ==
    _requireValidAdminRequest(approval,
        _computeRemoveRoleReqHash(roleId, approval.baseBlockHash))

\* a new role's mask built from its direct juniors alone
NewRoleMaskDirectOnly(roleDef) == BitOr(roleDef.juniorFlags, roleDef.roleFlag)

NewRoleMask(roleDef) ==
    BitOr(_buildStructureMask(roleDef.juniorFlags), roleDef.roleFlag)

\* the revert reason of addRole(approval, roleDef), or OK
AddRoleOutcome(approval, roleDef) ==
    LET validDef == _requireValidRoleDef(roleDef)
        request == _requireValidAddRoleRequest(approval, roleDef)
    IN IF approval.selfSignRequired THEN ERR_SELF_SIGN_ADMIN
       ELSE IF validDef # OK THEN validDef
       ELSE IF request # OK THEN request
       ELSE IF BitAnd(NewRoleMask(roleDef), roleDef.seniorFlags) # 0
       THEN ERR_CYCLE
       ELSE OK

\* the `for` loop of addRole from index i on; st = [mask, junior, firstParent]
RECURSIVE AddRoleLoop(_, _, _, _)
AddRoleLoop(roleDef, newRoleMask, i, st) ==
    IF i < numOfActiveRoles
    THEN LET roleFlag == roleIdx2Flag[i]
             roleMask == st.mask[roleFlag]
             isParent == BitAnd(roleDef.seniorFlags, roleFlag) # 0
             isSenior == BitAnd(roleMask, roleDef.seniorFlags) # 0
         IN AddRoleLoop(roleDef, newRoleMask, i + 1,
                [mask |-> IF isSenior
                          THEN [st.mask EXCEPT ![roleFlag] = BitOr(@, newRoleMask)]
                          ELSE st.mask,
                 junior |-> IF isParent
                            THEN [st.junior EXCEPT
                                    ![roleFlag] = BitOr(@, roleDef.roleFlag)]
                            ELSE st.junior,
                 firstParent |-> IF isParent /\ i <= st.firstParent
                                 THEN i ELSE st.firstParent])
    ELSE st

\* a right shift that starts one entry too late: the entry at `from` is not
\* moved before it is overwritten
shiftRightRoleIdxFromNext(from) ==
    [i \in DOMAIN roleIdx2Flag |->
        IF i > from + 1 /\ i <= numOfActiveRoles
        THEN roleIdx2Flag[i - 1] ELSE roleIdx2Flag[i]]

\* roleIdx2Flag after _shiftRightRoleIdx(from) (numOfActiveRoles grows by one)
_shiftRightRoleIdx(from) ==
    [i \in DOMAIN roleIdx2Flag |->
        IF i > from /\ i <= numOfActiveRoles
        THEN roleIdx2Flag[i - 1] ELSE roleIdx2Flag[i]]

RECURSIVE AddRuleHashes(_, _, _, _)
AddRuleHashes(map, ruleHashes, i, roleFlag) ==
    IF i > Len(ruleHashes) THEN map
    ELSE AddRuleHashes(
             IF ruleHashes[i] \in DOMAIN map
             THEN [map EXCEPT ![ruleHashes[i]] = BitOr(@, roleFlag)]
             ELSE [h \in DOMAIN map \cup {ruleHashes[i]} |->
                      IF h = ruleHashes[i] THEN roleFlag ELSE map[h]],
             ruleHashes, i + 1, roleFlag)

addRole(approval, roleDef) ==
    /\ AddRoleOutcome(approval, roleDef) = OK
    /\ LET newRoleMask == NewRoleMask(roleDef)
           st == AddRoleLoop(roleDef, newRoleMask, 0,
                     [mask |-> roleFlag2Mask, junior |-> roleFlag2JuniorMask,
                      firstParent |-> numOfActiveRoles])
       IN /\ roleIdx2Flag' = [_shiftRightRoleIdx(st.firstParent) EXCEPT
                                ![st.firstParent] = roleDef.roleFlag]
          /\ numOfActiveRoles' = numOfActiveRoles + 1
          /\ roleId2Flag' = [roleId2Flag EXCEPT ![roleDef.roleId] = roleDef.roleFlag]
          /\ roleFlag2JuniorMask' =
                 [st.junior EXCEPT ![roleDef.roleFlag] = roleDef.juniorFlags]
          /\ roleFlag2Mask' = [st.mask EXCEPT ![roleDef.roleFlag] = newRoleMask]
    /\ ruleHashToRoleFlags' =
           AddRuleHashes(ruleHashToRoleFlags, roleDef.ruleHashes, 1, roleDef.roleFlag)
    /\ freeRoleFlags' = BitXor(freeRoleFlags, roleDef.roleFlag)
    /\ activeRoleFlags' = BitOr(activeRoleFlags, roleDef.roleFlag)
    /\ UNCHANGED <<user2Roles, roleIdToNOAssignments, blockNumber, retiredFlags>>

\* the revert reason of removeRole(approval, roleId), or OK
RemoveRoleOutcome(approval, roleId) ==
    IF approval.selfSignRequired THEN ERR_SELF_SIGN_ADMIN
    ELSE IF FlagOfRoleId(roleId) = 0 THEN ERR_NO_ROLE
    ELSE LET request == _requireValidRemoveRequest(approval, roleId)
         IN IF request # OK THEN request
            \* `numOfActiveRoles - 1` in _shiftLeftRoleIdx is checked arithmetic
            ELSE IF numOfActiveRoles = 0 THEN PANIC
            ELSE OK

\* the `for` loop of removeRole from index i on; st = [mask, junior, roleIdx]
RECURSIVE RemoveRoleLoop(_, _, _)
RemoveRoleLoop(delRoleFlag, i, st) ==
    IF i < numOfActiveRoles
    THEN LET roleFlag == roleIdx2Flag[i]
         IN IF roleFlag = delRoleFlag
            THEN RemoveRoleLoop(delRoleFlag, i + 1, [st EXCEPT !.roleIdx = i])
            ELSE LET roleMask == st.mask[roleFlag]
                     isParent == BitAnd(st.junior[roleFlag], delRoleFlag) # 0
                     juniorMask == IF isParent
                                   THEN BitXor(st.junior[roleFlag], delRoleFlag)
                                   ELSE st.junior[roleFlag]
                 IN RemoveRoleLoop(delRoleFlag, i + 1,
                        [mask |-> IF BitAnd(roleMask, delRoleFlag) # 0
                                  THEN [st.mask EXCEPT ![roleFlag] =
                                          BitOr(BuildStructureMaskIn(st.mask, juniorMask, 0),
                                                roleFlag)]
                                  ELSE st.mask,
                         junior |-> [st.junior EXCEPT ![roleFlag] = juniorMask],
                         roleIdx |-> st.roleIdx])
    ELSE st

\* a left shift that starts one entry too late: the entry at `to` survives
\* and the one after it is overwritten
shiftLeftRoleIdxFromNext(to) ==
    [i \in DOMAIN roleIdx2Flag |->
        IF i > to /\ i < numOfActiveRoles - 1 THEN roleIdx2Flag[i + 1]
        ELSE IF i = numOfActiveRoles - 1 THEN 0
        ELSE roleIdx2Flag[i]]

\* roleIdx2Flag after _shiftLeftRoleIdx(to) (numOfActiveRoles shrinks by one)
_shiftLeftRoleIdx(to) ==
    [i \in DOMAIN roleIdx2Flag |->
        IF i >= to /\ i < numOfActiveRoles - 1 THEN roleIdx2Flag[i + 1]
        ELSE IF i = numOfActiveRoles - 1 THEN 0
        ELSE roleIdx2Flag[i]]

\* a removeRole that leaves the role id bound to the flag of the removed role
removeRoleKeepsId(approval, roleId) ==
    /\ RemoveRoleOutcome(approval, roleId) = OK
    /\ LET delRoleFlag == roleId2Flag[roleId]
           st == RemoveRoleLoop(delRoleFlag, 0,
                     [mask |-> roleFlag2Mask, junior |-> roleFlag2JuniorMask,
                      roleIdx |-> 0])
       IN /\ roleIdx2Flag' = _shiftLeftRoleIdx(st.roleIdx)
          /\ numOfActiveRoles' = numOfActiveRoles - 1
          /\ roleFlag2Mask' = [st.mask EXCEPT ![delRoleFlag] = 0]
          /\ roleFlag2JuniorMask' = [st.junior EXCEPT ![delRoleFlag] = 0]
          /\ activeRoleFlags' = BitXor(activeRoleFlags, delRoleFlag)
          /\ retiredFlags' = BitOr(retiredFlags, delRoleFlag)
    /\ UNCHANGED <<roleId2Flag, user2Roles, ruleHashToRoleFlags,
                   roleIdToNOAssignments, freeRoleFlags, blockNumber>>

\* a removeRole that hands the flag of the removed role back to the free flags
removeRoleFreesFlag(approval, roleId) ==
    /\ RemoveRoleOutcome(approval, roleId) = OK
    /\ LET delRoleFlag == roleId2Flag[roleId]
           st == RemoveRoleLoop(delRoleFlag, 0,
                     [mask |-> roleFlag2Mask, junior |-> roleFlag2JuniorMask,
                      roleIdx |-> 0])
       IN /\ roleIdx2Flag' = _shiftLeftRoleIdx(st.roleIdx)
          /\ numOfActiveRoles' = numOfActiveRoles - 1
          /\ roleId2Flag' = [roleId2Flag EXCEPT ![roleId] = 0]
          /\ roleFlag2Mask' = [st.mask EXCEPT ![delRoleFlag] = 0]
          /\ roleFlag2JuniorMask' = [st.junior EXCEPT ![delRoleFlag] = 0]
          /\ activeRoleFlags' = BitXor(activeRoleFlags, delRoleFlag)
          /\ retiredFlags' = BitOr(retiredFlags, delRoleFlag)
          /\ freeRoleFlags' = BitOr(freeRoleFlags, delRoleFlag)
    /\ UNCHANGED <<user2Roles, ruleHashToRoleFlags, roleIdToNOAssignments,
                   blockNumber>>

removeRole(approval, roleId) ==
    /\ RemoveRoleOutcome(approval, roleId) = OK
    /\ LET delRoleFlag == roleId2Flag[roleId]
           st == RemoveRoleLoop(delRoleFlag, 0,
                     [mask |-> roleFlag2Mask, junior |-> roleFlag2JuniorMask,
                      roleIdx |-> 0])
       IN /\ roleIdx2Flag' = _shiftLeftRoleIdx(st.roleIdx)
          /\ numOfActiveRoles' = numOfActiveRoles - 1
          /\ roleId2Flag' = [roleId2Flag EXCEPT ![roleId] = 0]
          /\ roleFlag2Mask' = [st.mask EXCEPT ![delRoleFlag] = 0]
          /\ roleFlag2JuniorMask' = [st.junior EXCEPT ![delRoleFlag] = 0]
          /\ activeRoleFlags' = BitXor(activeRoleFlags, delRoleFlag)
          /\ retiredFlags' = BitOr(retiredFlags, delRoleFlag)
    /\ UNCHANGED <<user2Roles, ruleHashToRoleFlags, roleIdToNOAssignments,
                   freeRoleFlags, blockNumber>>

(***************************************************************************)
(* Construction: the state the generated constructor leaves behind         *)
(* (DynOrgChartCompiler.createOrgChartData / createInitialAssignments,     *)
(* AbstractOrgChartCompiler.generateRules, OrgChartAnalysis)               *)
(***************************************************************************)
\* role of the deploying organisation's administrators: the role every rule
\* of the deployed charts asks a signature of
RootRoleId == 1
RootAtom == encodeRuleAtom(RootRoleId, 1, FALSE, FALSE)
AdminRule == <<"Rule", ADMIN_HASH, FALSE, <<RootAtom>>>>
GrantRule == <<"Rule", GRANT_HASH, FALSE, <<RootAtom>>>>
RevokeRule == <<"Rule", REVOKE_HASH, FALSE, <<RootAtom>>>>

\* atoms over role 2: at least one holder, at least one direct holder, and
\* all (100%) of the direct holders
TwoAtom == encodeRuleAtom(2, 1, FALSE, FALSE)
StrictTwoAtom == encodeRuleAtom(2, 1, TRUE, FALSE)
AllTwoAtom == encodeRuleAtom(2, 100, FALSE, TRUE)

\* the rule hash as the tooling computes it off-chain (computeRuleHash of the
\* compiler and of the client utilities): the atoms are sorted ascending
\* before they are hashed
computeRuleHash(action, selfSignRequired, atoms) ==
    LET sorted == CHOOSE s \in [1..Len(atoms) -> {atoms[i] : i \in 1..Len(atoms)}] :
                      /\ \A i, j \in 1..Len(atoms) : i < j => s[i] <= s[j]
                      /\ \A a \in {atoms[i] : i \in 1..Len(atoms)} :
                             Cardinality({i \in 1..Len(atoms) : s[i] = a}) =
                             Cardinality({i \in 1..Len(atoms) : atoms[i] = a})
    IN <<"Rule", action, selfSignRequired, sorted>>

\* the deployed charts: roles 1..4, edges <<senior, junior>>
\*   chain:   1    2 -> 3 -> 4        diamond:  1 -> 2 -> 4, 1 -> 3 -> 4
InitRoleIds == 1..4
ChainEdges == {<<2, 3>>, <<3, 4>>}
DiamondEdges == {<<1, 2>>, <<1, 3>>, <<2, 4>>, <<3, 4>>}
InitCharts == {ChainEdges, DiamondEdges}

\* OrgChartAnalysis.flagGraph: role with node id n gets flag 1 << n
InitFlag(role) == 2^(role - 1)

RECURSIVE OrFlags(_)
OrFlags(S) ==
    IF S = {} THEN 0
    ELSE LET f == CHOOSE x \in S : TRUE IN BitOr(f, OrFlags(S \ {f}))

\* OrgChartAnalysis.juniorMaskGraph
InitJuniorMask(edges, role) ==
    OrFlags({InitFlag(e[2]) : e \in {d \in edges : d[1] = role}})

\* OrgChartAnalysis.maskGraph: own flag or-ed with the masks of the juniors
RECURSIVE InitMask(_, _)
InitMask(edges, role) ==
    LET juniors == {e[2] : e \in {d \in edges : d[1] = role}}
    IN BitOr(InitFlag(role), OrFlags({InitMask(edges, j) : j \in juniors}))

\* the reversed topological orders of a chart: every junior before its senior
InitOrders(edges) ==
    {o \in [0..(Cardinality(InitRoleIds) - 1) -> InitRoleIds] :
        /\ \A i, j \in DOMAIN o : i # j => o[i] # o[j]
        /\ \A e \in edges :
               \A i, j \in DOMAIN o : o[i] = e[1] /\ o[j] = e[2] => j < i}

InitActiveFlags == OrFlags({InitFlag(r) : r \in InitRoleIds})

Init ==
    \E edges \in InitCharts : \E order \in InitOrders(edges) :
        /\ roleId2Flag = [id \in RoleIdWords |->
                             IF id \in InitRoleIds THEN InitFlag(id) ELSE 0]
        /\ roleIdx2Flag = [i \in 0..WordBits |->
                              IF i \in DOMAIN order THEN InitFlag(order[i]) ELSE 0]
        /\ roleFlag2Mask = [f \in PureFlags |->
                               IF \E r \in InitRoleIds : InitFlag(r) = f
                               THEN InitMask(edges, CHOOSE r \in InitRoleIds : InitFlag(r) = f)
                               ELSE 0]
        /\ roleFlag2JuniorMask = [f \in PureFlags |->
                               IF \E r \in InitRoleIds : InitFlag(r) = f
                               THEN InitJuniorMask(edges, CHOOSE r \in InitRoleIds : InitFlag(r) = f)
                               ELSE 0]
        /\ freeRoleFlags = BitAnd(WordMax, BitNot(InitActiveFlags))
        /\ activeRoleFlags = BitAnd(WordMax, BitNot(BitAnd(WordMax, BitNot(InitActiveFlags))))
        /\ numOfActiveRoles = Cardinality(InitRoleIds)
        \* user 1 is the initial holder of the root role
        /\ user2Roles = [u \in Addresses |->
                            IF u = 1 THEN InitFlag(RootRoleId) ELSE 0]
        /\ roleIdToNOAssignments = [id \in RoleIdWords |->
                                       IF id = RootRoleId THEN 1 ELSE 0]
        \* the charts declare one grant and one revoke rule, for role 2
        /\ ruleHashToRoleFlags =
               [h \in {AdminRule, GrantRule, RevokeRule} |->
                   IF h = AdminRule THEN WordMax ELSE InitFlag(2)]
        /\ blockNumber = LOOK_BACK_LENGTH + 1
        /\ retiredFlags = 0
        /\ GeneratorIdle

(***************************************************************************)
(* Transactions                                                            *)
(***************************************************************************)
\* rule bodies clients submit
RuleBodies == {<<RootAtom>>}
\* base blocks clients sign over: the latest block, and one that has just
\* left the look-back window
BaseBlockInputs == {blockhash(blockNumber, blockNumber - 1),
                    blockhash(blockNumber, blockNumber - LOOK_BACK_LENGTH - 1)}

\* approvals whose signatures are made by users over the request being sent
Approvals(targetHashOf) ==
    {[sig |-> [i \in DOMAIN sa[1] |->
                  [signer |-> sa[1][i], over |-> targetHashOf[base]]],
      atoms |-> atoms, assignment |-> sa[2],
      selfSignRequired |-> ss, baseBlockHash |-> base] :
        sa \in UNION {[1..k -> Users] \X [1..k -> 0..1] : k \in 0..MaxSigs},
        atoms \in RuleBodies, ss \in BOOLEAN, base \in BaseBlockInputs}

UserMgtApprovals(nominee, action, roleId) ==
    Approvals([base \in BaseBlockInputs |->
                  _computeUserManagementReqHash(nominee, action, roleId, base)])
AddRoleApprovals(roleDef) ==
    Approvals([base \in BaseBlockInputs |->
                  _computeAddRoleReqHash(roleDef, base)])
RemoveRoleApprovals(roleId) ==
    Approvals([base \in BaseBlockInputs |->
                  _computeRemoveRoleReqHash(roleId, base)])

\* TestContext.computeAvailableRoleFlag: the lowest free flag
RECURSIVE AvailableFrom(_, _)
AvailableFrom(free, curr) ==
    IF BitAnd(curr, free) = curr THEN curr ELSE AvailableFrom(free, curr * 2)
computeAvailableRoleFlag == AvailableFrom(freeRoleFlags, 1)

EdgeMasks == {m \in Word : PopCount(m) <= MaxEdgeBits}
\* a revoke rule declared with selfSignRequired: the chart compiler never
\* emits one, addRole registers whatever hashes the role definition lists
SelfRevokeRule == <<"Rule", REVOKE_HASH, TRUE, <<RootAtom>>>>
\* a grant rule over two different atoms, hashed by the client that adds the
\* role
RuleHashInputs ==
    {<<>>, <<GrantRule, RevokeRule, SelfRevokeRule,
             computeRuleHash(GRANT_HASH, FALSE, <<TwoAtom, RootAtom>>)>>}
RoleDefs ==
    {[roleId |-> id, roleFlag |-> computeAvailableRoleFlag, seniorFlags |-> s,
      juniorFlags |-> j, ruleHashes |-> rh] :
        id \in RoleIds, s \in EdgeMasks, j \in EdgeMasks, rh \in RuleHashInputs}

GrantRole ==
    /\ \E nominee \in Users, roleId \in RoleIds :
           \E approval \in UserMgtApprovals(nominee, GRANT_HASH, roleId) :
               grantRole(approval, nominee, roleId)
    /\ UNCHANGED sortVars

RevokeRole ==
    /\ \E nominee \in Users, roleId \in RoleIds :
           \E approval \in UserMgtApprovals(nominee, REVOKE_HASH, roleId) :
               revokeRole(approval, nominee, roleId)
    /\ UNCHANGED sortVars

AddRole ==
    /\ freeRoleFlags # 0
    /\ PopCount(BitNot(freeRoleFlags)) < MaxRoleSlots
    /\ \E roleDef \in RoleDefs :
           /\ _requireValidRoleDef(roleDef) = OK
           /\ \E approval \in AddRoleApprovals(roleDef) :
                  addRole(approval, roleDef)
    /\ UNCHANGED sortVars

RemoveRole ==
    /\ PopCount(retiredFlags) < MaxRemovals
    /\ \E roleId \in RoleIds :
        \E approval \in RemoveRoleApprovals(roleId) :
            removeRole(approval, roleId)
    /\ UNCHANGED sortVars

\* a block is mined
MineBlock ==
    /\ blockNumber < MaxHeight
    /\ blockNumber' = blockNumber + 1
    /\ UNCHANGED <<roleId2Flag, roleFlag2Mask, roleFlag2JuniorMask, roleIdx2Flag,
                   numOfActiveRoles, user2Roles, ruleHashToRoleFlags,
                   roleIdToNOAssignments, activeRoleFlags, freeRoleFlags,
                   retiredFlags>>
    /\ UNCHANGED sortVars

Next == GrantRole \/ RevokeRole \/ AddRole \/ RemoveRole \/ MineBlock

Spec == Init /\ [][Next]_vars

(***************************************************************************)
(* Administration only: the chart is restructured by approvals of the      *)
(* latest block, one signature each, and may grow by one more role.        *)
(***************************************************************************)
LatestBlockHash == blockhash(blockNumber, blockNumber - 1)
PlainApprovals(targetHash) ==
    {[sig |-> <<[signer |-> u, over |-> targetHash]>>,
      atoms |-> <<RootAtom>>, assignment |-> <<0>>,
      selfSignRequired |-> FALSE, baseBlockHash |-> LatestBlockHash] :
        u \in Users}
PlainAddRoleApprovals(roleDef) ==
    PlainApprovals(_computeAddRoleReqHash(roleDef, LatestBlockHash))
PlainRemoveRoleApprovals(roleId) ==
    PlainApprovals(_computeRemoveRoleReqHash(roleId, LatestBlockHash))
PlainRoleDefs == {roleDef \in RoleDefs : roleDef.ruleHashes = <<>>}

AdminAddRole ==
    /\ freeRoleFlags # 0
    /\ PopCount(BitNot(freeRoleFlags)) < MaxDeepSlots
    /\ \E roleDef \in PlainRoleDefs :
           /\ _requireValidRoleDef(roleDef) = OK
           /\ \E approval \in PlainAddRoleApprovals(roleDef) :
                  addRole(approval, roleDef)
    /\ UNCHANGED sortVars

AdminRemoveRole ==
    /\ PopCount(retiredFlags) < MaxRemovals
    /\ \E roleId \in RoleIds :
        \E approval \in PlainRemoveRoleApprovals(roleId) :
            removeRole(approval, roleId)
    /\ UNCHANGED sortVars

AdminNext == AdminAddRole \/ AdminRemoveRole

AdminSpec == Init /\ [][AdminNext]_vars

(***************************************************************************)
(* A chart with one rule of every kind: the diamond chart deployed right   *)
(* after the chain started, managed by approvals of up to MaxRuleSigs      *)
(* signatures                                                              *)
(***************************************************************************)
MaxRuleSigs == 2

\* the rules the chart declares: <<action, selfSignRequired, atoms, role>>
RuleTable ==
    {<<GRANT_HASH, FALSE, <<RootAtom>>, 2>>,
     <<GRANT_HASH, TRUE, <<RootAtom>>, 3>>,
     <<GRANT_HASH, FALSE, <<StrictTwoAtom>>, 4>>,
     <<GRANT_HASH, FALSE, <<TwoAtom, TwoAtom>>, 1>>,
     <<REVOKE_HASH, FALSE, <<RootAtom>>, 2>>,
     <<REVOKE_HASH, FALSE, <<RootAtom>>, 3>>,
     <<REVOKE_HASH, FALSE, <<AllTwoAtom>>, 4>>}

\* the hash the compiler stores for a declared rule
RuleTableHash(rule) == computeRuleHash(rule[1], rule[2], rule[3])

RuleInit ==
    \E order \in InitOrders(DiamondEdges) :
        /\ roleId2Flag = [id \in RoleIdWords |->
                             IF id \in InitRoleIds THEN InitFlag(id) ELSE 0]
        /\ roleIdx2Flag = [i \in 0..WordBits |->
                              IF i \in DOMAIN order THEN InitFlag(order[i]) ELSE 0]
        /\ roleFlag2Mask = [f \in PureFlags |->
                               IF \E r \in InitRoleIds : InitFlag(r) = f
                               THEN InitMask(DiamondEdges,
                                        CHOOSE r \in InitRoleIds : InitFlag(r) = f)
                               ELSE 0]
        /\ roleFlag2JuniorMask = [f \in PureFlags |->
                               IF \E r \in InitRoleIds : InitFlag(r) = f
                               THEN InitJuniorMask(DiamondEdges,
                                        CHOOSE r \in InitRoleIds : InitFlag(r) = f)
                               ELSE 0]
        /\ freeRoleFlags = BitAnd(WordMax, BitNot(InitActiveFlags))
        /\ activeRoleFlags = BitAnd(WordMax, BitNot(BitAnd(WordMax, BitNot(InitActiveFlags))))
        /\ numOfActiveRoles = Cardinality(InitRoleIds)
        /\ user2Roles = [u \in Addresses |->
                            IF u = 1 THEN InitFlag(RootRoleId) ELSE 0]
        /\ roleIdToNOAssignments = [id \in RoleIdWords |->
                                       IF id = RootRoleId THEN 1 ELSE 0]
        /\ ruleHashToRoleFlags =
               [h \in {AdminRule} \cup {RuleTableHash(rule) : rule \in RuleTable} |->
                   IF h = AdminRule THEN WordMax
                   ELSE OrFlags({InitFlag(rule[4]) :
                                    rule \in {r \in RuleTable : RuleTableHash(r) = h}})]
        \* the first transaction after the deployment in block 1
        /\ blockNumber = 2
        /\ retiredFlags = 0
        /\ GeneratorIdle

\* rule bodies clients submit: the declared ones and an undeclared one
RuleSpecBodies == {rule[3] : rule \in RuleTable} \cup {<<TwoAtom>>}

\* approvals of up to MaxRuleSigs signatures, in any signer order
RuleApprovals(targetHashOf) ==
    {[sig |-> [i \in DOMAIN sa[1] |->
                  [signer |-> sa[1][i], over |-> targetHashOf[base]]],
      atoms |-> atoms, assignment |-> sa[2],
      selfSignRequired |-> ss, baseBlockHash |-> base] :
        sa \in UNION {[1..k -> Users] \X [1..k -> 0..1] : k \in 0..MaxRuleSigs},
        atoms \in RuleSpecBodies, ss \in BOOLEAN, base \in BaseBlockInputs}

RuleUserMgtApprovals(nominee, action, roleId) ==
    RuleApprovals([base \in BaseBlockInputs |->
                      _computeUserManagementReqHash(nominee, action, roleId, base)])

RuleGrantRole ==
    /\ \E nominee \in Users, roleId \in RoleIds :
           \E approval \in RuleUserMgtApprovals(nominee, GRANT_HASH, roleId) :
               grantRole(approval, nominee, roleId)
    /\ UNCHANGED sortVars

RuleRevokeRole ==
    /\ \E nominee \in Users, roleId \in RoleIds :
           \E approval \in RuleUserMgtApprovals(nominee, REVOKE_HASH, roleId) :
               revokeRole(approval, nominee, roleId)
    /\ UNCHANGED sortVars

RuleNext == RuleGrantRole \/ RuleRevokeRole \/ AdminRemoveRole \/ MineBlock

RuleSpec == RuleInit /\ [][RuleNext]_vars

(***************************************************************************)
(* The role graph as the registry describes it                             *)
(***************************************************************************)
ActiveFlags == FlagsOf(activeRoleFlags)
\* direct-junior edges between active roles
DirectJuniors(f) == FlagsOf(roleFlag2JuniorMask[f]) \cap ActiveFlags

RECURSIVE ReachClosure(_)
ReachClosure(S) ==
    LET next == S \cup UNION {DirectJuniors(f) : f \in S}
    IN IF next = S THEN S ELSE ReachClosure(next)
\* the active roles reachable from f along direct-junior edges (f included)
Reachable(f) == ReachClosure({f})

Position(f) == CHOOSE i \in 0..(numOfActiveRoles - 1) : roleIdx2Flag[i] = f
KnownRoleIds == {id \in RoleIdWords : roleId2Flag[id] # 0}

(***************************************************************************)
(* Properties                                                              *)
(***************************************************************************)
\* C1: every active role's structure mask is its own flag or-ed with the
\* structure masks of the flags in its direct-junior mask.
C1_MaskConsistency ==
    \A f \in ActiveFlags :
        roleFlag2Mask[f] =
            BitOr(f, OrFlags({roleFlag2Mask[j] :
                                 j \in FlagsOf(roleFlag2JuniorMask[f])}))

\* C2: for active roles A and B, B is reachable from A along direct-junior
\* edges exactly when B's flag is set in A's structure mask.
C2_MaskIsReachability ==
    \A a \in ActiveFlags : \A b \in ActiveFlags :
        (b \in Reachable(a)) <=> (BitAnd(roleFlag2Mask[a], b) = b)

\* C3: the role index is reverse-topological: an active role J whose flag is
\* in the structure mask of another active role S is listed before S.
C3_ReverseTopological ==
    \A sr \in ActiveFlags : \A jr \in ActiveFlags :
        (jr # sr /\ BitAnd(roleFlag2Mask[sr], jr) = jr)
            => Position(jr) < Position(sr)

\* C4: hasRole(u, R) holds only if u directly holds an active role from which
\* R is reachable along direct-junior edges.
C4_NoAuthorityBeyondGraph ==
    \A u \in Users : \A id \in KnownRoleIds :
        hasRole(u, id) =>
            \E sr \in ActiveFlags :
                /\ BitAnd(user2Roles[u], sr) = sr
                /\ roleId2Flag[id] \in Reachable(sr)

\* C5: hasRole is closed under the junior relation: whenever J is reachable
\* from the active role S along direct-junior edges, a user who strictly holds
\* S has J, and a user who has S has J.
C5_JuniorClosure ==
    \A u \in Users : \A sid \in KnownRoleIds : \A jid \in KnownRoleIds :
        roleId2Flag[jid] \in Reachable(roleId2Flag[sid]) =>
            /\ strictlyHasRole(u, sid) => hasRole(u, jid)
            /\ hasRole(u, sid) => hasRole(u, jid)

\* a user strictly holds a role and through it has a role that was added
\* after construction, in a chart from which a role has been removed
C5_Witness ==
    /\ retiredFlags # 0
    /\ \E u \in Users : \E sid \in KnownRoleIds : \E jid \in KnownRoleIds :
        /\ sid # jid
        /\ BitAnd(InitActiveFlags, roleId2Flag[jid]) = 0
        /\ roleId2Flag[jid] \in Reachable(roleId2Flag[sid])
        /\ strictlyHasRole(u, sid)
        /\ hasRole(u, jid)

\* C6: addRole and removeRole reject every approval whose base block hash is
\* not the hash of one of the last LOOK_BACK_LENGTH blocks.
C6_AdminRejectsStaleBaseBlock ==
    /\ \A roleDef \in RoleDefs : \A approval \in AddRoleApprovals(roleDef) :
        ~_isValidBaseBlock(approval.baseBlockHash)
            => AddRoleOutcome(approval, roleDef) # OK
    /\ \A roleId \in RoleIds : \A approval \in RemoveRoleApprovals(roleId) :
        ~_isValidBaseBlock(approval.baseBlockHash)
            => RemoveRoleOutcome(approval, roleId) # OK

\* C7: for every active role, roleIdToNOAssignments equals the number of
\* addresses that have the role directly assigned.
C7_AssignmentCount ==
    \A id \in KnownRoleIds :
        roleIdToNOAssignments[id] =
            Cardinality({u \in DOMAIN user2Roles : strictlyHasRole(u, id)})

\* add-role requests naming the flag F
FlagProbes(F) ==
    {[roleId |-> id, roleFlag |-> F, seniorFlags |-> sn, juniorFlags |-> 0,
      ruleHashes |-> <<>>] : id \in RoleIds, sn \in EdgeMasks}

\* C8: a flag that was ever allocated to a role is never in freeRoleFlags
\* again, whatever is removed, and addRole with a flag that is or was active
\* fails with "Role flag already taken" (for every approval that, as admin
\* rules demand, does not ask for a self-sign).
C8_FlagNeverReused ==
    /\ BitAnd(freeRoleFlags, BitOr(retiredFlags, activeRoleFlags)) = 0
    /\ \A F \in FlagsOf(BitOr(retiredFlags, activeRoleFlags)) :
        \A roleDef \in FlagProbes(F) :
            \A approval \in PlainAddRoleApprovals(roleDef) :
                AddRoleOutcome(approval, roleDef) = ERR_FLAG_TAKEN

\* after a removal, an add-role request with the removed role's flag fails
\* with "Role flag already taken" while one with a free flag is accepted
C8_Witness ==
    /\ retiredFlags # 0
    /\ \E F \in FlagsOf(retiredFlags) : \E roleDef \in FlagProbes(F) :
        \E approval \in PlainAddRoleApprovals(roleDef) :
            AddRoleOutcome(approval, roleDef) = ERR_FLAG_TAKEN
    /\ \E roleDef \in FlagProbes(computeAvailableRoleFlag) :
        \E approval \in PlainAddRoleApprovals(roleDef) :
            /\ BitAnd(freeRoleFlags, roleDef.roleFlag) = roleDef.roleFlag
            /\ AddRoleOutcome(approval, roleDef) = OK

\* C9: right after a successful addRole no user strictly holds the new role,
\* and hasRole(u, new role) holds only for users who directly hold an active
\* role, other than the new one, from which the new role is reachable along
\* direct-junior edges.
C9_NewRoleInheritsNoHolders ==
    [][numOfActiveRoles' > numOfActiveRoles =>
        LET newFlag == BitXor(activeRoleFlags', activeRoleFlags)
        IN \A id \in RoleIdWords :
            roleId2Flag'[id] = newFlag =>
                \A u \in Users :
                    /\ ~strictlyHasRole(u, id)'
                    /\ hasRole(u, id)' =>
                        \E sr \in ActiveFlags' \ {newFlag} :
                            /\ BitAnd(user2Roles'[u], sr) = sr
                            /\ newFlag \in Reachable(sr)']_vars

\* no active role is reachable from one of its own direct juniors
Acyclic == \A f \in ActiveFlags : f \notin ReachClosure(DirectJuniors(f))
\* add-role requests that would close a cycle: the proposed senior is
\* reachable from the proposed junior
CyclicRoleDefs ==
    {[roleId |-> id, roleFlag |-> computeAvailableRoleFlag,
      seniorFlags |-> e[1], juniorFlags |-> e[2], ruleHashes |-> rh] :
        id \in RoleIds, rh \in RuleHashInputs,
        e \in {p \in ActiveFlags \X ActiveFlags : p[1] \in Reachable(p[2])}}

\* C10: the graph of direct-junior edges over active roles is acyclic, and an
\* otherwise valid addRole request whose proposed senior is reachable from its
\* proposed junior fails with "Cycle detected".
C10_CycleSafety ==
    /\ Acyclic
    /\ freeRoleFlags # 0 =>
        \A roleDef \in CyclicRoleDefs :
            \A approval \in PlainAddRoleApprovals(roleDef) :
                /\ AddRoleOutcome(approval, roleDef) # OK
                /\ (/\ _requireValidRoleDef(roleDef) = OK
                    /\ _requireValidAddRoleRequest(approval, roleDef) = OK)
                        => AddRoleOutcome(approval, roleDef) = ERR_CYCLE

\* a request placing a new role above a role added after construction and
\* below one of that role's seniors is answered with "Cycle detected"
C10_Witness ==
    /\ freeRoleFlags # 0
    /\ \E roleDef \in CyclicRoleDefs :
        /\ BitAnd(InitActiveFlags, roleDef.juniorFlags) = 0
        /\ roleDef.seniorFlags # roleDef.juniorFlags
        /\ \E approval \in PlainAddRoleApprovals(roleDef) :
            AddRoleOutcome(approval, roleDef) = ERR_CYCLE

(***************************************************************************)
(* Approval checks, claim by claim                                         *)
(***************************************************************************)
\* C11: addRole fails (with "One or more senior roles do not exist",
\* respectively "... junior roles ...") whenever the senior (junior) flags
\* of the role definition contain a bit that is not the flag of a currently
\* active role, the flag of a role that was removed earlier included.
\* Stated here in its weakest form: such an addRole is not accepted.
C11_MissingEdgesRejected ==
    \A roleDef \in PlainRoleDefs :
        \A approval \in PlainAddRoleApprovals(roleDef) :
            \/ BitAnd(roleDef.seniorFlags, activeRoleFlags) # roleDef.seniorFlags
            \/ BitAnd(roleDef.juniorFlags, activeRoleFlags) # roleDef.juniorFlags
            => AddRoleOutcome(approval, roleDef) # OK

\* the revert reason of a user-management call, by action
UserMgtOutcome(action, approval, nominee, roleId) ==
    IF action = GRANT_HASH THEN GrantRoleOutcome(approval, nominee, roleId)
    ELSE RevokeRoleOutcome(approval, nominee, roleId)

\* C12: grantRole and revokeRole for a role succeed only under a rule
\* (action, selfSignRequired, atoms) the chart declares for that role and
\* that action; a request for an existing role that passes the approval
\* modifier but names a rule body that is undeclared, declared only for
\* another role, or declared only for the other action is rejected with
\* "Invalid rule" (so the user's roles stay as they are).
C12_InvalidRuleRejected ==
    \A action \in {GRANT_HASH, REVOKE_HASH}, nominee \in Users, roleId \in RoleIds :
        \A approval \in RuleUserMgtApprovals(nominee, action, roleId) :
            /\ onlyValidApprovals(approval) = OK
            /\ FlagOfRoleId(roleId) # 0
            /\ <<action, approval.selfSignRequired, approval.atoms, roleId>>
                   \notin RuleTable
            => UserMgtOutcome(action, approval, nominee, roleId) = ERR_INVALID_RULE

\* user 2 was granted role 2 under its declared rule, and the signature that
\* grants role 2 is of no use under a body declared for another role only,
\* under one declared for the other action only, or under an undeclared one
C12_Witness ==
    /\ BitAnd(user2Roles[2], InitFlag(2)) # 0
    /\ \A atoms \in {<<StrictTwoAtom>>, <<AllTwoAtom>>, <<TwoAtom>>} :
           \E approval \in RuleUserMgtApprovals(2, GRANT_HASH, 2) :
               /\ approval.atoms = atoms
               /\ Len(approval.sig) = 1 /\ approval.sig[1].signer = 1
               /\ GrantRoleOutcome(approval, 2, 2) = ERR_INVALID_RULE
    /\ \E approval \in RuleUserMgtApprovals(2, GRANT_HASH, 2) :
           GrantRoleOutcome(approval, 2, 2) = OK

\* approvals signed over an add-role / a remove-role request
RuleAddRoleApprovals(roleDef) ==
    RuleApprovals([base \in BaseBlockInputs |->
                      _computeAddRoleReqHash(roleDef, base)])
RuleRemoveRoleApprovals(roleId) ==
    RuleApprovals([base \in BaseBlockInputs |->
                      _computeRemoveRoleReqHash(roleId, base)])
\* definitions of a role without seniors and juniors
LoneRoleDefs ==
    {roleDef \in PlainRoleDefs : roleDef.seniorFlags = 0 /\ roleDef.juniorFlags = 0}

\* C13: addRole and removeRole succeed only under the admin rule, the one
\* rule whose hash (admin, selfSignRequired, atoms) maps to the all-bits-set
\* sentinel; a request that passes the checks made before the rule lookup
\* (no self-sign, well-formed role definition, existing role) under any
\* other rule body, a declared grant or revoke rule included, is rejected
\* with "Invalid admin-rule" (so the role registry stays as it is).
C13_InvalidAdminRuleRejected ==
    /\ \A h \in DOMAIN ruleHashToRoleFlags :
           ruleHashToRoleFlags[h] = WordMax => h = AdminRule
    /\ \A roleId \in RoleIds :
           \A approval \in RuleRemoveRoleApprovals(roleId) :
               /\ ~approval.selfSignRequired
               /\ FlagOfRoleId(roleId) # 0
               /\ approval.atoms # <<RootAtom>>
               => RemoveRoleOutcome(approval, roleId) = ERR_INVALID_ADMIN_RULE
    /\ \A roleDef \in LoneRoleDefs :
           \A approval \in RuleAddRoleApprovals(roleDef) :
               /\ ~approval.selfSignRequired
               /\ _requireValidRoleDef(roleDef) = OK
               /\ approval.atoms # <<RootAtom>>
               => AddRoleOutcome(approval, roleDef) = ERR_INVALID_ADMIN_RULE

\* a role was removed under the admin rule, a further removal and an addition
\* would be accepted under it, and the same signer is turned away under the
\* body of the declared grant rule of role 4
C13_Witness ==
    /\ retiredFlags # 0
    /\ \E roleId \in RoleIds :
           \E approval \in RuleRemoveRoleApprovals(roleId) :
               /\ RemoveRoleOutcome(approval, roleId) = OK
               /\ RemoveRoleOutcome([approval EXCEPT !.atoms = <<StrictTwoAtom>>],
                                    roleId) = ERR_INVALID_ADMIN_RULE
    /\ \E roleDef \in LoneRoleDefs :
           \E approval \in RuleAddRoleApprovals(roleDef) :
               /\ AddRoleOutcome(approval, roleDef) = OK
               /\ AddRoleOutcome([approval EXCEPT !.atoms = <<StrictTwoAtom>>],
                                 roleDef) = ERR_INVALID_ADMIN_RULE

\* the signatures of an approval whose signer is not the nominee, is assigned
\* to an atom over an existing role, and does not hold that role in the way
\* the atom asks for
SignersLackingRole(approval, nominee) ==
    {i \in 1..Len(approval.sig) :
        /\ approval.sig[i].signer # nominee
        /\ approval.assignment[i] < Len(approval.atoms)
        /\ LET atom == approval.atoms[approval.assignment[i] + 1]
           IN /\ RoleKnown(AtomRoleId(atom))
              /\ IF AtomIsStrict(atom)
                 THEN ~strictlyHasRole(approval.sig[i].signer, AtomRoleId(atom))
                 ELSE ~hasRole(approval.sig[i].signer, AtomRoleId(atom))}
\* every signer but the nominee is assigned to an atom over an existing role
AssignmentWellFormed(approval, nominee) ==
    \A i \in 1..Len(approval.sig) :
        approval.sig[i].signer # nominee =>
            /\ approval.assignment[i] < Len(approval.atoms)
            /\ RoleKnown(AtomRoleId(approval.atoms[approval.assignment[i] + 1]))

\* C14: in every accepted approval (grantRole, revokeRole, addRole,
\* removeRole) each signer other than the nominee holds the role of the atom
\* it is assigned to, directly (strictlyHasRole) when the atom is strict,
\* directly or by inheritance (hasRole) otherwise; and a request that passes
\* the checks made before the fulfillment (modifier, rule lookup, signer
\* order, self-sign) and is well assigned, but has such a signer without the
\* role, fails with "Invalid assignment: At least one signer does not have
\* the specified role".
C14_SignersHoldAssignedRoles ==
    /\ \A action \in {GRANT_HASH, REVOKE_HASH}, nominee \in Users, roleId \in RoleIds :
           \A approval \in RuleUserMgtApprovals(nominee, action, roleId) :
               LET outcome == UserMgtOutcome(action, approval, nominee, roleId)
                   res == getSigners(approval.sig, nominee,
                              _computeUserManagementReqHash(nominee, action, roleId,
                                                            approval.baseBlockHash))
               IN /\ outcome = OK =>
                         /\ AssignmentWellFormed(approval, nominee)
                         /\ SignersLackingRole(approval, nominee) = {}
                  /\ /\ onlyValidApprovals(approval) = OK
                     /\ <<action, approval.selfSignRequired, approval.atoms, roleId>>
                            \in RuleTable
                     /\ FlagOfRoleId(roleId) # 0
                     /\ res.ok /\ res.selfSigned = approval.selfSignRequired
                     /\ AssignmentWellFormed(approval, nominee)
                     /\ SignersLackingRole(approval, nominee) # {}
                     => outcome = ERR_PERMISSION
    /\ \A roleId \in RoleIds :
           \A approval \in RuleRemoveRoleApprovals(roleId) :
               LET outcome == RemoveRoleOutcome(approval, roleId)
                   res == getSigners(approval.sig, 0,
                              _computeRemoveRoleReqHash(roleId, approval.baseBlockHash))
               IN /\ outcome = OK =>
                         /\ AssignmentWellFormed(approval, 0)
                         /\ SignersLackingRole(approval, 0) = {}
                  /\ /\ ~approval.selfSignRequired
                     /\ FlagOfRoleId(roleId) # 0
                     /\ approval.atoms = <<RootAtom>>
                     /\ res.ok
                     /\ AssignmentWellFormed(approval, 0)
                     /\ SignersLackingRole(approval, 0) # {}
                     => outcome = ERR_PERMISSION
    /\ \A roleDef \in LoneRoleDefs :
           \A approval \in RuleAddRoleApprovals(roleDef) :
               LET outcome == AddRoleOutcome(approval, roleDef)
                   res == getSigners(approval.sig, 0,
                              _computeAddRoleReqHash(roleDef, approval.baseBlockHash))
               IN /\ outcome = OK =>
                         /\ AssignmentWellFormed(approval, 0)
                         /\ SignersLackingRole(approval, 0) = {}
                  /\ /\ ~approval.selfSignRequired
                     /\ _requireValidRoleDef(roleDef) = OK
                     /\ approval.atoms = <<RootAtom>>
                     /\ res.ok
                     /\ AssignmentWellFormed(approval, 0)
                     /\ SignersLackingRole(approval, 0) # {}
                     => outcome = ERR_PERMISSION

\* user 2 holds role 2 directly and has used it to grant role 4 to user 1
\* under the strict rule; user 1, who holds role 2 by inheritance from the
\* root role only, is denied when signing the same grant for user 2; and
\* user 2 is denied when signing an admin request
C14_Witness ==
    /\ strictlyHasRole(2, 2)
    /\ BitAnd(user2Roles[1], InitFlag(4)) # 0
    /\ hasRole(1, 2) /\ ~strictlyHasRole(1, 2)
    /\ \E approval \in RuleUserMgtApprovals(2, GRANT_HASH, 4) :
           /\ approval.atoms = <<StrictTwoAtom>>
           /\ Len(approval.sig) = 1 /\ approval.sig[1].signer = 1
           /\ GrantRoleOutcome(approval, 2, 4) = ERR_PERMISSION
    /\ \E approval \in RuleUserMgtApprovals(1, GRANT_HASH, 4) :
           /\ approval.atoms = <<StrictTwoAtom>>
           /\ Len(approval.sig) = 1 /\ approval.sig[1].signer = 2
           /\ GrantRoleOutcome(approval, 1, 4) = OK
    /\ \E roleId \in RoleIds :
           \E approval \in RuleRemoveRoleApprovals(roleId) :
               /\ Len(approval.sig) = 1 /\ approval.sig[1].signer = 2
               /\ RemoveRoleOutcome(approval, roleId) = ERR_PERMISSION

\* the atoms (1-based) of an approval that fewer signers are assigned to than
\* the atom asks for, the nominee's own signature not counted
AtomsShortOfSigners(approval, nominee) ==
    {a \in 1..Len(approval.atoms) :
        Cardinality({i \in 1..Len(approval.sig) :
                        /\ approval.sig[i].signer # nominee
                        /\ approval.assignment[i] = a - 1})
            < RequiredQty(approval.atoms[a])}

\* C15: an approval is accepted only if every atom of its rule, duplicates
\* counted one by one, has at least the required number of signers assigned
\* to it (the nominee's self-sign excluded); a request that passes all
\* earlier checks, the signers' role checks included, but leaves an atom
\* short fails with "Not enough signers have signed the request".
C15_QuantityPerAtom ==
    /\ \A action \in {GRANT_HASH, REVOKE_HASH}, nominee \in Users, roleId \in RoleIds :
           \A approval \in RuleUserMgtApprovals(nominee, action, roleId) :
               LET outcome == UserMgtOutcome(action, approval, nominee, roleId)
                   res == getSigners(approval.sig, nominee,
                              _computeUserManagementReqHash(nominee, action, roleId,
                                                            approval.baseBlockHash))
               IN /\ outcome = OK => AtomsShortOfSigners(approval, nominee) = {}
                  /\ /\ onlyValidApprovals(approval) = OK
                     /\ <<action, approval.selfSignRequired, approval.atoms, roleId>>
                            \in RuleTable
                     /\ FlagOfRoleId(roleId) # 0
                     /\ res.ok /\ res.selfSigned = approval.selfSignRequired
                     /\ AssignmentWellFormed(approval, nominee)
                     /\ SignersLackingRole(approval, nominee) = {}
                     /\ AtomsShortOfSigners(approval, nominee) # {}
                     => outcome = ERR_NOT_ENOUGH_SIGNERS
    /\ \A roleId \in RoleIds :
           \A approval \in RuleRemoveRoleApprovals(roleId) :
               LET outcome == RemoveRoleOutcome(approval, roleId)
                   res == getSigners(approval.sig, 0,
                              _computeRemoveRoleReqHash(roleId, approval.baseBlockHash))
               IN /\ outcome = OK => AtomsShortOfSigners(approval, 0) = {}
                  /\ /\ ~approval.selfSignRequired
                     /\ FlagOfRoleId(roleId) # 0
                     /\ approval.atoms = <<RootAtom>>
                     /\ res.ok
                     /\ AssignmentWellFormed(approval, 0)
                     /\ SignersLackingRole(approval, 0) = {}
                     /\ AtomsShortOfSigners(approval, 0) # {}
                     => outcome = ERR_NOT_ENOUGH_SIGNERS

\* user 2 directly holds role 2 and its one signature revokes role 4 from
\* user 1 under the relative rule; a grant of role 2 without any signature, and a grant of
\* role 1 under the rule with the duplicated atom, signed by one holder
\* assigned to the first of the two atoms, both fail for lack of signers
C15_Witness ==
    /\ strictlyHasRole(2, 2)
    /\ \E approval \in RuleUserMgtApprovals(1, REVOKE_HASH, 4) :
           /\ approval.atoms = <<AllTwoAtom>>
           /\ RevokeRoleOutcome(approval, 1, 4) = OK
    /\ \E approval \in RuleUserMgtApprovals(2, GRANT_HASH, 2) :
           /\ approval.sig = <<>>
           /\ GrantRoleOutcome(approval, 2, 2) = ERR_NOT_ENOUGH_SIGNERS
    /\ \E approval \in RuleUserMgtApprovals(2, GRANT_HASH, 1) :
           /\ approval.atoms = <<TwoAtom, TwoAtom>>
           /\ Len(approval.sig) = 1 /\ approval.sig[1].signer = 1
           /\ approval.assignment = <<0>>
           /\ GrantRoleOutcome(approval, 2, 1) = ERR_NOT_ENOUGH_SIGNERS

\* the signers of an approval are strictly ascending addresses
StrictlyAscending(approval) ==
    \A i, j \in 1..Len(approval.sig) :
        i < j => approval.sig[i].signer < approval.sig[j].signer

\* C16: every operation that takes an approval accepts it only if its signers
\* are strictly ascending, so that no signer appears twice; a request that
\* passes the checks made before the signers are recovered (modifier, role
\* and rule lookup, role definition) with signers out of order or repeated
\* fails with "Signers need to be sorted in ascending order", whatever roles
\* the signers hold.
C16_SignersAscending ==
    /\ \A action \in {GRANT_HASH, REVOKE_HASH}, nominee \in Users, roleId \in RoleIds :
           \A approval \in RuleUserMgtApprovals(nominee, action, roleId) :
               LET outcome == UserMgtOutcome(action, approval, nominee, roleId)
               IN /\ outcome = OK => StrictlyAscending(approval)
                  /\ /\ onlyValidApprovals(approval) = OK
                     /\ <<action, approval.selfSignRequired, approval.atoms, roleId>>
                            \in RuleTable
                     /\ FlagOfRoleId(roleId) # 0
                     /\ ~StrictlyAscending(approval)
                     => outcome = ERR_UNSORTED
    /\ \A roleId \in RoleIds :
           \A approval \in RuleRemoveRoleApprovals(roleId) :
               LET outcome == RemoveRoleOutcome(approval, roleId)
               IN /\ outcome = OK => StrictlyAscending(approval)
                  /\ /\ ~approval.selfSignRequired
                     /\ FlagOfRoleId(roleId) # 0
                     /\ approval.atoms = <<RootAtom>>
                     /\ ~StrictlyAscending(approval)
                     => outcome = ERR_UNSORTED
    /\ \A roleDef \in LoneRoleDefs :
           \A approval \in RuleAddRoleApprovals(roleDef) :
               LET outcome == AddRoleOutcome(approval, roleDef)
               IN /\ outcome = OK => StrictlyAscending(approval)
                  /\ /\ ~approval.selfSignRequired
                     /\ _requireValidRoleDef(roleDef) = OK
                     /\ approval.atoms = <<RootAtom>>
                     /\ ~StrictlyAscending(approval)
                     => outcome = ERR_UNSORTED

\* users 1 and 2 both hold role 2 (user 1 by inheritance), yet their
\* signatures in descending order do not revoke role 4; user 1 cannot sign
\* the grant of role 3 to itself twice, as nominee and as root; and the same
\* holds for a removal signed twice by the root
C16_Witness ==
    /\ strictlyHasRole(2, 2) /\ hasRole(1, 2)
    /\ BitAnd(user2Roles[1], InitFlag(4)) # 0
    /\ \E approval \in RuleUserMgtApprovals(1, REVOKE_HASH, 4) :
           /\ approval.atoms = <<AllTwoAtom>>
           /\ Len(approval.sig) = 2
           /\ approval.sig[1].signer = 2 /\ approval.sig[2].signer = 1
           /\ RevokeRoleOutcome(approval, 1, 4) = ERR_UNSORTED
    /\ \E approval \in RuleUserMgtApprovals(1, GRANT_HASH, 3) :
           /\ approval.selfSignRequired
           /\ Len(approval.sig) = 2
           /\ approval.sig[1].signer = 1 /\ approval.sig[2].signer = 1
           /\ GrantRoleOutcome(approval, 1, 3) = ERR_UNSORTED
    /\ \E roleId \in RoleIds :
           \E approval \in RuleRemoveRoleApprovals(roleId) :
               /\ Len(approval.sig) = 2
               /\ approval.sig[1].signer = 1 /\ approval.sig[2].signer = 1
               /\ RemoveRoleOutcome(approval, roleId) = ERR_UNSORTED

\* C17: grantRole and revokeRole fail with "Signature out-dated or not valid
\* on this fork. Reeisue a new signature" unless baseBlockHash is the hash of
\* one of the LOOK_BACK_LENGTH blocks before the current one, so that an
\* approval signed over block b is accepted at no height above
\* b + LOOK_BACK_LENGTH; a base block inside the window never draws that
\* message.
C17_StaleBaseBlockRejected ==
    \A action \in {GRANT_HASH, REVOKE_HASH}, nominee \in Users, roleId \in RoleIds :
        \A approval \in RuleUserMgtApprovals(nominee, action, roleId) :
            LET window == {n \in (blockNumber - LOOK_BACK_LENGTH)..(blockNumber - 1) :
                              n >= 0}
                fresh == \E n \in window :
                             approval.baseBlockHash = blockhash(blockNumber, n)
                outcome == UserMgtOutcome(action, approval, nominee, roleId)
            IN IF fresh THEN outcome # ERR_BASE_BLOCK
               ELSE outcome = ERR_BASE_BLOCK

\* an admin-rule approval over the latest block that carries one signature
\* more than MAX_NUM_SIGNERS, by ascending addresses from user 1 on, the
\* first of them assigned to the rule's atom
CrowdedApproval(targetHash) ==
    [sig |-> [i \in 1..(MAX_NUM_SIGNERS + 1) |-> [signer |-> i, over |-> targetHash]],
     atoms |-> <<RootAtom>>, assignment |-> <<0>>,
     selfSignRequired |-> FALSE, baseBlockHash |-> LatestBlockHash]

\* C18: every operation that takes an approval (grantRole, revokeRole,
\* addRole, removeRole) fails with "To many signers! Cannot process" when the
\* approval carries more than MAX_NUM_SIGNERS signatures.
C18_TooManySignersRejected ==
    /\ \A nominee \in Users, roleId \in KnownRoleIds :
           /\ GrantRoleOutcome(
                  CrowdedApproval(_computeUserManagementReqHash(
                      nominee, GRANT_HASH, roleId, LatestBlockHash)),
                  nominee, roleId) = ERR_TOO_MANY_SIGNERS
           /\ RevokeRoleOutcome(
                  CrowdedApproval(_computeUserManagementReqHash(
                      nominee, REVOKE_HASH, roleId, LatestBlockHash)),
                  nominee, roleId) = ERR_TOO_MANY_SIGNERS
    /\ \A roleId \in KnownRoleIds :
           RemoveRoleOutcome(
               CrowdedApproval(_computeRemoveRoleReqHash(roleId, LatestBlockHash)),
               roleId) = ERR_TOO_MANY_SIGNERS
    /\ \A roleDef \in {d \in PlainRoleDefs : _requireValidRoleDef(d) = OK} :
           AddRoleOutcome(
               CrowdedApproval(_computeAddRoleReqHash(roleDef, LatestBlockHash)),
               roleDef) = ERR_TOO_MANY_SIGNERS

\* the largest number of direct holders the quantity arithmetic is examined for
MaxBase == 40

\* the one n with 100 * (n - 1) < base * perc <= 100 * n, moved into
\* 1..MAX_NUM_SIGNERS
CeilClamped(base, perc) ==
    LET floor == (base * perc) \div 100
        ceil == CHOOSE n \in {floor, floor + 1} :
                    /\ 100 * n >= base * perc
                    /\ 100 * (n - 1) < base * perc
    IN IF ceil < 1 THEN 1
       ELSE IF ceil > MAX_NUM_SIGNERS THEN MAX_NUM_SIGNERS
       ELSE ceil

\* C19: for a relative atom with percentage q over role R the number of
\* required signers is ceil(assignment count of R * q / 100) clamped to
\* 1..MAX_NUM_SIGNERS: never 0, also when R has no direct holder, and never
\* above MAX_NUM_SIGNERS; the assignment count being the number of users
\* that hold R directly.
C19_RelativeQuantity ==
    /\ \A base \in 0..MaxBase, perc \in 0..(2^QTY_BITS - 1) :
           LET req == _getAbsNumberOfRequiredSigners(base, perc)
           IN /\ req = CeilClamped(base, perc)
              /\ req >= 1 /\ req <= MAX_NUM_SIGNERS
    /\ \A roleId \in KnownRoleIds, perc \in 0..(2^QTY_BITS - 1), isStrict \in BOOLEAN :
           RequiredQty(encodeRuleAtom(roleId, perc, isStrict, TRUE)) =
               CeilClamped(Cardinality({u \in Users : strictlyHasRole(u, roleId)}),
                           perc)

\* role 2 has lost its only direct holder again after that holder granted
\* role 4 to user 1: the rule `100% of role 2` still asks for one signer
C19_Witness ==
    /\ NOAssignmentsOf(2) = 0 /\ RoleKnown(2)
    /\ BitAnd(user2Roles[1], InitFlag(4)) # 0
    /\ RequiredQty(AllTwoAtom) = 1
    /\ \E approval \in RuleUserMgtApprovals(2, REVOKE_HASH, 4) :
           /\ approval.atoms = <<AllTwoAtom>> /\ approval.sig = <<>>
           /\ RevokeRoleOutcome(approval, 2, 4) = ERR_NOT_ENOUGH_SIGNERS
    /\ \E approval \in RuleUserMgtApprovals(2, REVOKE_HASH, 4) :
           /\ approval.atoms = <<AllTwoAtom>> /\ Len(approval.sig) = 1
           /\ RevokeRoleOutcome(approval, 2, 4) = OK

\* C20: a grant request is accepted only if the nominee's own signature is
\* present exactly when the rule requires it; a request that passes the
\* earlier checks (modifier, role and rule lookup, signer order) fails with
\* "Missing signature of nominee" when the rule requires the self-sign and
\* the nominee has not signed, and with "Nominee is not expected to sign"
\* when the nominee has signed and the rule does not require it.
C20_SelfSignConsistency ==
    \A nominee \in Users, roleId \in RoleIds :
        \A approval \in RuleUserMgtApprovals(nominee, GRANT_HASH, roleId) :
            LET outcome == GrantRoleOutcome(approval, nominee, roleId)
                selfSigned == \E i \in 1..Len(approval.sig) :
                                  approval.sig[i].signer = nominee
                reachesCheck ==
                    /\ onlyValidApprovals(approval) = OK
                    /\ <<GRANT_HASH, approval.selfSignRequired, approval.atoms, roleId>>
                           \in RuleTable
                    /\ FlagOfRoleId(roleId) # 0
                    /\ StrictlyAscending(approval)
            IN /\ outcome = OK => (selfSigned <=> approval.selfSignRequired)
               /\ reachesCheck /\ approval.selfSignRequired /\ ~selfSigned
                      => outcome = ERR_MISSING_SELF_SIGN
               /\ reachesCheck /\ ~approval.selfSignRequired /\ selfSigned
                      => outcome = ERR_UNEXPECTED_SELF_SIGN

\* user 2 was granted role 3 under the rule that requires its own signature
\* next to the root's; the root's signature alone does not grant role 3, and
\* user 2's signature next to the root's spoils the grant of role 2, whose
\* rule does not require it
C20_Witness ==
    /\ BitAnd(user2Roles[2], InitFlag(3)) # 0
    /\ \E approval \in RuleUserMgtApprovals(2, GRANT_HASH, 3) :
           /\ Len(approval.sig) = 2
           /\ GrantRoleOutcome(approval, 2, 3) = OK
    /\ \E approval \in RuleUserMgtApprovals(2, GRANT_HASH, 3) :
           /\ Len(approval.sig) = 1 /\ approval.sig[1].signer = 1
           /\ GrantRoleOutcome(approval, 2, 3) = ERR_MISSING_SELF_SIGN
    /\ \E approval \in RuleUserMgtApprovals(2, GRANT_HASH, 2) :
           /\ Len(approval.sig) = 2
           /\ approval.sig[1].signer = 1 /\ approval.sig[2].signer = 2
           /\ GrantRoleOutcome(approval, 2, 2) = ERR_UNEXPECTED_SELF_SIGN

\* C21: selfSignRequired is meaningful for grants only: a revoke approval
\* under a registered revoke rule with selfSignRequired set, with a valid
\* base block, ascending signers and every atom satisfied by signers other
\* than the nominee, is accepted whether or not the nominee signed.
C21_RevokeIgnoresSelfSign ==
    \A nominee \in Users, roleId \in KnownRoleIds :
        \A approval \in UserMgtApprovals(nominee, REVOKE_HASH, roleId) :
            /\ approval.selfSignRequired
            /\ onlyValidApprovals(approval) = OK
            /\ BitAnd(RuleFlagsOf(<<"Rule", REVOKE_HASH, TRUE, approval.atoms>>),
                      FlagOfRoleId(roleId)) = FlagOfRoleId(roleId)
            /\ StrictlyAscending(approval)
            /\ AssignmentWellFormed(approval, nominee)
            /\ SignersLackingRole(approval, nominee) = {}
            /\ AtomsShortOfSigners(approval, nominee) = {}
            => RevokeRoleOutcome(approval, nominee, roleId) = OK

\* C22: a signer other than the nominee whose assignment index is not
\* smaller than the number of atoms makes the operation fail with "Invalid
\* assignment": no accepted approval has such a signer, and a request that
\* reaches the fulfillment check (modifier, role and rule lookup, signer
\* order, self-sign) and whose signers before the first such signer pass
\* their role check reverts with that message; the nominee's own signature
\* may carry any index.
C22_InvalidAssignmentRejected ==
    /\ \A action \in {GRANT_HASH, REVOKE_HASH}, nominee \in Users, roleId \in RoleIds :
           \A approval \in RuleUserMgtApprovals(nominee, action, roleId) :
               LET outcome == UserMgtOutcome(action, approval, nominee, roleId)
                   outOfRange == {i \in 1..Len(approval.sig) :
                                     /\ approval.sig[i].signer # nominee
                                     /\ approval.assignment[i] >= Len(approval.atoms)}
                   selfSigned == \E i \in 1..Len(approval.sig) :
                                     approval.sig[i].signer = nominee
               IN /\ outcome = OK => outOfRange = {}
                  /\ /\ onlyValidApprovals(approval) = OK
                     /\ <<action, approval.selfSignRequired, approval.atoms, roleId>>
                            \in RuleTable
                     /\ FlagOfRoleId(roleId) # 0
                     /\ StrictlyAscending(approval)
                     /\ selfSigned = approval.selfSignRequired
                     /\ outOfRange # {}
                     /\ \A j \in 1..Len(approval.sig) :
                            (\A i \in outOfRange : j < i) /\ approval.sig[j].signer # nominee
                            => /\ RoleKnown(AtomRoleId(
                                      approval.atoms[approval.assignment[j] + 1]))
                               /\ j \notin SignersLackingRole(approval, nominee)
                     => outcome = ERR_INVALID_ASSIGNMENT
    /\ \A roleId \in RoleIds :
           \A approval \in RuleRemoveRoleApprovals(roleId) :
               LET outcome == RemoveRoleOutcome(approval, roleId)
                   outOfRange == {i \in 1..Len(approval.sig) :
                                     approval.assignment[i] >= Len(approval.atoms)}
               IN /\ outcome = OK => outOfRange = {}
                  /\ /\ ~approval.selfSignRequired
                     /\ FlagOfRoleId(roleId) # 0
                     /\ approval.atoms = <<RootAtom>>
                     /\ StrictlyAscending(approval)
                     /\ outOfRange # {}
                     /\ \A j \in 1..Len(approval.sig) :
                            (\A i \in outOfRange : j < i)
                            => /\ RoleKnown(RootRoleId)
                               /\ j \notin SignersLackingRole(approval, 0)
                     => outcome = ERR_INVALID_ASSIGNMENT

\* user 2 was granted role 3 by the root's signature and its own; its own
\* signature may be assigned to an atom the rule does not have, the root's
\* may not
C22_Witness ==
    /\ BitAnd(user2Roles[2], InitFlag(3)) # 0
    /\ \E approval \in RuleUserMgtApprovals(2, GRANT_HASH, 3) :
           /\ approval.atoms = <<RootAtom>>
           /\ Len(approval.sig) = 2 /\ approval.assignment = <<0, 1>>
           /\ GrantRoleOutcome(approval, 2, 3) = OK
    /\ \E approval \in RuleUserMgtApprovals(2, GRANT_HASH, 3) :
           /\ approval.atoms = <<RootAtom>>
           /\ Len(approval.sig) = 2 /\ approval.assignment = <<1, 0>>
           /\ GrantRoleOutcome(approval, 2, 3) = ERR_INVALID_ASSIGNMENT

\* C23: a rule-hash binding is destroyed when no role references it any
\* longer: once removeRole has removed a role, that role's flag is set in the
\* entry of no rule (the admin rule's all-bits-set sentinel aside), so that
\* a rule registered for that role alone has no binding left.
C23_RuleBindingsOfRemovedRolesCleared ==
    \A h \in DOMAIN ruleHashToRoleFlags :
        ruleHashToRoleFlags[h] # WordMax =>
            BitAnd(ruleHashToRoleFlags[h], retiredFlags) = 0

\* C24: the rule hash is invariant under reordering of the atoms, and the
\* hash computed on-chain during verification equals the hash computed
\* off-chain for the same rule: whenever a rule's off-chain hash is bound in
\* the rule-hash map, the on-chain hash of the rule with its atoms in any
\* order finds the same binding.
C24_RuleHashCanonical ==
    \A action \in {GRANT_HASH, REVOKE_HASH, ADMIN_HASH}, ss \in BOOLEAN :
        \A atoms \in UNION {[1..k -> {RootAtom, TwoAtom, StrictTwoAtom}] : k \in 0..2} :
            \A p \in {q \in [1..Len(atoms) -> 1..Len(atoms)] :
                         \A i, j \in 1..Len(atoms) : i # j => q[i] # q[j]} :
                LET permuted == [i \in 1..Len(atoms) |-> atoms[p[i]]]
                IN /\ computeRuleHash(action, ss, permuted) =
                          computeRuleHash(action, ss, atoms)
                   /\ RuleFlagsOf(computeRuleHash(action, ss, atoms)) # 0 =>
                          RuleFlagsOf(_computeRuleHash(
                              [selfSignRequired |-> ss, atoms |-> permuted], action)) =
                          RuleFlagsOf(computeRuleHash(action, ss, atoms))

C26_FailFastOrder ==
    \A action \in {GRANT_HASH, REVOKE_HASH}, nominee \in Users, roleId \in RoleIds :
        FlagOfRoleId(roleId) # 0 =>
            \A approval \in RuleUserMgtApprovals(nominee, action, roleId) :
                LET outcome == UserMgtOutcome(action, approval, nominee, roleId)
                    modifier == onlyValidApprovals(approval)
                    declared ==
                        BitAnd(RuleFlagsOf(_computeRuleHash(approval, action)),
                               FlagOfRoleId(roleId)) = FlagOfRoleId(roleId)
                    selfSigned ==
                        \E i \in 1..Len(approval.sig) :
                            approval.sig[i].signer = nominee
                IN IF modifier # OK THEN outcome = modifier
                   ELSE IF ~StrictlyAscending(approval)
                   THEN outcome = ERR_UNSORTED
                   ELSE IF ~declared THEN outcome = ERR_INVALID_RULE
                   ELSE IF selfSigned # approval.selfSignRequired
                   THEN outcome = IF approval.selfSignRequired
                                  THEN ERR_MISSING_SELF_SIGN
                                  ELSE ERR_UNEXPECTED_SELF_SIGN
                   ELSE outcome \in {OK, PANIC, ERR_INVALID_ASSIGNMENT,
                                     ERR_UNKNOWN_ROLE, ERR_PERMISSION,
                                     ERR_NOT_ENOUGH_SIGNERS}

\* C27: a successful grantRole of a role the nominee already holds directly
\* is a no-op: the request is accepted without error and the step it takes
\* leaves every user's assignment word and every assignment count as they
\* were, so granting the same role to the same user again never counts the
\* user twice.
C27_RepeatedGrantIsNoOp ==
    [][\A nominee \in Users, roleId \in RoleIds :
           BitAnd(user2Roles[nominee], FlagOfRoleId(roleId)) # 0 =>
               \A approval \in RuleUserMgtApprovals(nominee, GRANT_HASH, roleId) :
                   grantRole(approval, nominee, roleId)
                       => /\ user2Roles' = user2Roles
                          /\ roleIdToNOAssignments' = roleIdToNOAssignments]_vars

\* user 2 holds role 2, counted once, and a further grant of role 2 to user 2
\* is accepted
C27_Witness ==
    /\ BitAnd(user2Roles[2], FlagOfRoleId(2)) # 0
    /\ roleIdToNOAssignments[2] = 1
    /\ \E approval \in RuleUserMgtApprovals(2, GRANT_HASH, 2) :
           GrantRoleOutcome(approval, 2, 2) = OK

\* C28: a successful revokeRole of a role the nominee does not hold directly
\* is a no-op: the request is accepted without error and the step it takes
\* leaves every user's assignment word and every assignment count as they
\* were, so authority the nominee has over the role by holding a senior role
\* is not removed.
C28_RevokeOfUnheldIsNoOp ==
    [][\A nominee \in Users, roleId \in RoleIds :
           BitAnd(user2Roles[nominee], FlagOfRoleId(roleId)) = 0 =>
               \A approval \in RuleUserMgtApprovals(nominee, REVOKE_HASH, roleId) :
                   revokeRole(approval, nominee, roleId)
                       => /\ user2Roles' = user2Roles
                          /\ roleIdToNOAssignments' = roleIdToNOAssignments
                          /\ hasRole(nominee, roleId)' = hasRole(nominee, roleId)]_vars

\* a revoke of a role the nominee holds only by inheritance is accepted
C28_Witness ==
    \E nominee \in Users, roleId \in RoleIds :
        /\ BitAnd(user2Roles[nominee], FlagOfRoleId(roleId)) = 0
        /\ FlagOfRoleId(roleId) # 0
        /\ hasRole(nominee, roleId)
        /\ \E approval \in RuleUserMgtApprovals(nominee, REVOKE_HASH, roleId) :
               RevokeRoleOutcome(approval, nominee, roleId) = OK

\* C29: a user's assignment bits change only through grantRole and
\* revokeRole: a step that changes user2Roles changes one user's word in
\* exactly one bit, the flag of an existing role (set by a grant, cleared by
\* a revoke), and leaves the role registry as it was; a step that changes
\* the registry (addRole, removeRole) changes no user's word.
C29_AssignmentBitsFrame ==
    [][user2Roles' # user2Roles =>
           /\ \E nominee \in Users, roleId \in RoleIds :
                  /\ FlagOfRoleId(roleId) # 0
                  /\ \A user \in Addresses \ {nominee} :
                         user2Roles'[user] = user2Roles[user]
                  /\ \/ /\ BitAnd(user2Roles[nominee], FlagOfRoleId(roleId)) = 0
                        /\ user2Roles'[nominee] =
                               BitOr(user2Roles[nominee], FlagOfRoleId(roleId))
                     \/ /\ BitAnd(user2Roles[nominee], FlagOfRoleId(roleId)) # 0
                        /\ user2Roles'[nominee] =
                               BitAnd(user2Roles[nominee],
                                      BitNot(FlagOfRoleId(roleId)))
           /\ UNCHANGED <<roleId2Flag, roleFlag2Mask, roleFlag2JuniorMask,
                          roleIdx2Flag, numOfActiveRoles, ruleHashToRoleFlags,
                          activeRoleFlags, freeRoleFlags>>]_vars

\* a role has been added and another removed while user 2 holds role 2
C29_Witness ==
    /\ BitAnd(user2Roles[2], 2) # 0
    /\ retiredFlags # 0
    /\ numOfActiveRoles = Cardinality(InitRoleIds)

\* C30: in every reachable state activeRoleFlags is the OR of the flags
\* stored in roleIdx2Flag[0 .. numOfActiveRoles - 1], each of them the flag
\* of one listed role.
C30_ActiveFlagsAreIndexedFlags ==
    /\ activeRoleFlags =
           OrFlags({roleIdx2Flag[i] : i \in 0..(numOfActiveRoles - 1)})
    /\ \A i \in 0..(numOfActiveRoles - 1) : PopCount(roleIdx2Flag[i]) = 1

\* two roles have been added and one removed whose flag is lower than that
\* of a role still listed
C30_Witness ==
    /\ retiredFlags # 0
    /\ numOfActiveRoles = Cardinality(InitRoleIds) + 1
    /\ \E i \in 0..(numOfActiveRoles - 1) : roleIdx2Flag[i] > retiredFlags

(***************************************************************************)
(* Registry bookkeeping and lookups                                        *)
(***************************************************************************)
\* C31: in every reachable state freeRoleFlags and activeRoleFlags have no
\* bit in common, and the flag of a role that was registered and then
\* removed is in neither of them.
C31_FreeActiveRetiredDisjoint ==
    /\ BitAnd(freeRoleFlags, activeRoleFlags) = 0
    /\ BitAnd(retiredFlags, freeRoleFlags) = 0
    /\ BitAnd(retiredFlags, activeRoleFlags) = 0

\* one role has been removed and two roles added on fresh flags
C31_Witness ==
    /\ retiredFlags # 0
    /\ PopCount(BitNot(freeRoleFlags)) = Cardinality(InitRoleIds) + 2
    /\ PopCount(activeRoleFlags) = Cardinality(InitRoleIds) + 1

\* C32: every operation given a role id that has no active role (never
\* registered, or removed and not added again) fails for an unknown role:
\* hasRole and strictlyHasRole revert with "Unknown role"; grantRole and
\* revokeRole are rejected, with "Unknown role" whenever the approval passes
\* the modifier that runs before the lookup; removeRole is rejected, with
\* "Role does not exist" whenever the approval passes the self-sign check
\* that runs before the lookup.  A removed role can no longer be granted.
C32_UnknownRoleRejected ==
    \A roleId \in RoleIds :
        BitAnd(FlagOfRoleId(roleId), activeRoleFlags) = 0 =>
            /\ ~RoleKnown(roleId)
            /\ \A action \in {GRANT_HASH, REVOKE_HASH}, nominee \in Users :
                   \A approval \in RuleUserMgtApprovals(nominee, action, roleId) :
                       LET outcome == UserMgtOutcome(action, approval, nominee, roleId)
                       IN /\ outcome # OK
                          /\ onlyValidApprovals(approval) = OK
                                 => outcome = ERR_UNKNOWN_ROLE
            /\ \A approval \in RuleRemoveRoleApprovals(roleId) :
                   LET outcome == RemoveRoleOutcome(approval, roleId)
                   IN /\ outcome # OK
                      /\ ~approval.selfSignRequired => outcome = ERR_NO_ROLE

\* role 2 has been removed, and a grant of role 2 to user 2 signed by the
\* root holder under the rule the chart declared for it now fails with
\* "Unknown role"
C32_Witness ==
    /\ BitAnd(retiredFlags, 2) # 0
    /\ FlagOfRoleId(2) = 0
    /\ \E approval \in RuleUserMgtApprovals(2, GRANT_HASH, 2) :
           /\ approval.atoms = <<RootAtom>>
           /\ ~approval.selfSignRequired
           /\ Len(approval.sig) = 1 /\ approval.sig[1].signer = 1
           /\ GrantRoleOutcome(approval, 2, 2) = ERR_UNKNOWN_ROLE

\* C33: _buildStructureMask terminates for every word in at most
\* popcount(flags) iterations: whatever non-zero word is left, _getPure
\* extracts exactly one bit that is set in it, the iteration clears that bit
\* (one set bit fewer remains), and the mask built is the mask of the
\* extracted role ORed with the mask built from the rest.
C33_BuildStructureMaskTerminates ==
    \A roleFlags \in Word \ {0} :
        LET role == _getPure(roleFlags)
        IN /\ PopCount(role) = 1
           /\ BitAnd(roleFlags, role) = role
           /\ PopCount(BitXor(roleFlags, role)) = PopCount(roleFlags) - 1
           /\ _buildStructureMask(roleFlags) =
                  BitOr(roleFlag2Mask[role],
                        _buildStructureMask(BitXor(roleFlags, role)))

\* user 2 holds two roles directly and the mask built from the two flags
\* adds the flag of a junior role
C33_Witness ==
    /\ PopCount(UserRoleFlags(2)) = 2
    /\ PopCount(_getPure(UserRoleFlags(2))) = 1
    /\ PopCount(_buildStructureMask(UserRoleFlags(2))) > 2

\* C34: for every user and every existing role, strictlyHasRole(user, role)
\* implies hasRole(user, role).
C34_StrictImpliesEffective ==
    \A user \in Addresses, roleId \in RoleIds :
        RoleKnown(roleId) =>
            (strictlyHasRole(user, roleId) => hasRole(user, roleId))

\* user 2 holds role 2 strictly, and holds another role by inheritance only
C34_Witness ==
    /\ RoleKnown(2)
    /\ strictlyHasRole(2, 2)
    /\ hasRole(2, 2)
    /\ \E roleId \in RoleIds :
           /\ RoleKnown(roleId)
           /\ hasRole(2, roleId)
           /\ ~strictlyHasRole(2, roleId)

(***************************************************************************)
(* What an accepted approval commits its signers to                        *)
(***************************************************************************)
\* C35: an approval whose assignment array does not have exactly one entry
\* per signature is rejected: no grantRole request over the latest block is
\* accepted with an assignment shorter or longer than its list of
\* signatures, whoever signed it (users over the request, or a signature
\* over something else).
C35_AssignmentLengthMatches ==
    \A nominee \in Users, roleId \in RoleIds :
        \A k \in 0..2, m \in 0..2 :
            k # m =>
                \A signed \in [1..k -> Users \X BOOLEAN], assignment \in [1..m -> 0..1] :
                    LET target == _computeUserManagementReqHash(
                                      nominee, GRANT_HASH, roleId, LatestBlockHash)
                        approval ==
                            [sig |-> [i \in 1..k |->
                                         [signer |-> signed[i][1],
                                          over |-> IF signed[i][2] THEN target
                                                   ELSE <<"other">>]],
                             atoms |-> <<RootAtom>>,
                             assignment |-> assignment,
                             selfSignRequired |-> FALSE,
                             baseBlockHash |-> LatestBlockHash]
                    IN GrantRoleOutcome(approval, nominee, roleId) # OK

C37_SignersCoverSumOfQuantities ==
    /\ \A action \in {GRANT_HASH, REVOKE_HASH}, nominee \in Users, roleId \in RoleIds :
           \A approval \in RuleUserMgtApprovals(nominee, action, roleId) :
               UserMgtOutcome(action, approval, nominee, roleId) = OK =>
                   Cardinality({approval.sig[i].signer : i \in 1..Len(approval.sig)}
                                   \ {nominee})
                       >= (IF Len(approval.atoms) >= 1
                           THEN RequiredQty(approval.atoms[1]) ELSE 0)
                          + (IF Len(approval.atoms) >= 2
                             THEN RequiredQty(approval.atoms[2]) ELSE 0)
    /\ \A roleId \in RoleIds :
           \A approval \in RuleRemoveRoleApprovals(roleId) :
               RemoveRoleOutcome(approval, roleId) = OK =>
                   Cardinality({approval.sig[i].signer : i \in 1..Len(approval.sig)})
                       >= (IF Len(approval.atoms) >= 1
                           THEN RequiredQty(approval.atoms[1]) ELSE 0)
                          + (IF Len(approval.atoms) >= 2
                             THEN RequiredQty(approval.atoms[2]) ELSE 0)

\* user 2 holds role 2; the grant of role 1 to user 2 under the rule that
\* asks twice for one holder of role 2 is short of signers when user 1 signs
\* for either atom, while user 1's one signature is enough to revoke role 2
C37_Witness ==
    /\ strictlyHasRole(2, 2)
    /\ \A idx \in 0..1 :
           \E approval \in RuleUserMgtApprovals(2, GRANT_HASH, 1) :
               /\ approval.atoms = <<TwoAtom, TwoAtom>>
               /\ Len(approval.sig) = 1
               /\ approval.sig[1].signer = 1
               /\ approval.assignment = <<idx>>
               /\ ~approval.selfSignRequired
               /\ GrantRoleOutcome(approval, 2, 1) = ERR_NOT_ENOUGH_SIGNERS
    /\ \E approval \in RuleUserMgtApprovals(2, REVOKE_HASH, 2) :
           /\ Len(approval.sig) = 1
           /\ RevokeRoleOutcome(approval, 2, 2) = OK

(***************************************************************************)
(* A chart whose roles all declare the same grant rule, grown until every  *)
(* flag of the word has been handed out.                                   *)
(***************************************************************************)
\* as the generated constructor leaves it: generateRules ORs the flags of
\* all roles declaring a rule into the entry of its hash
SharedRuleInit ==
    \E order \in InitOrders(DiamondEdges) :
        /\ roleId2Flag = [id \in RoleIdWords |->
                             IF id \in InitRoleIds THEN InitFlag(id) ELSE 0]
        /\ roleIdx2Flag = [i \in 0..WordBits |->
                              IF i \in DOMAIN order THEN InitFlag(order[i]) ELSE 0]
        /\ roleFlag2Mask = [f \in PureFlags |->
                               IF \E r \in InitRoleIds : InitFlag(r) = f
                               THEN InitMask(DiamondEdges,
                                        CHOOSE r \in InitRoleIds : InitFlag(r) = f)
                               ELSE 0]
        /\ roleFlag2JuniorMask = [f \in PureFlags |->
                               IF \E r \in InitRoleIds : InitFlag(r) = f
                               THEN InitJuniorMask(DiamondEdges,
                                        CHOOSE r \in InitRoleIds : InitFlag(r) = f)
                               ELSE 0]
        /\ freeRoleFlags = BitAnd(WordMax, BitNot(InitActiveFlags))
        /\ activeRoleFlags = BitAnd(WordMax, BitNot(BitAnd(WordMax, BitNot(InitActiveFlags))))
        /\ numOfActiveRoles = Cardinality(InitRoleIds)
        /\ user2Roles = [u \in Addresses |->
                            IF u = 1 THEN InitFlag(RootRoleId) ELSE 0]
        /\ roleIdToNOAssignments = [id \in RoleIdWords |->
                                       IF id = RootRoleId THEN 1 ELSE 0]
        /\ ruleHashToRoleFlags =
               [h \in {AdminRule, GrantRule} |->
                   IF h = AdminRule THEN WordMax ELSE InitActiveFlags]
        /\ blockNumber = LOOK_BACK_LENGTH + 1
        /\ retiredFlags = 0
        /\ GeneratorIdle

\* addRole of a role without seniors and juniors that declares the shared
\* grant rule, under a fresh role id, on the lowest free flag
FillAddRole ==
    /\ freeRoleFlags # 0
    /\ \E roleId \in (Cardinality(InitRoleIds) + 1)..WordBits :
           LET roleDef == [roleId |-> roleId,
                           roleFlag |-> computeAvailableRoleFlag,
                           seniorFlags |-> 0, juniorFlags |-> 0,
                           ruleHashes |-> <<GrantRule>>]
           IN /\ _requireValidRoleDef(roleDef) = OK
              /\ \E approval \in PlainAddRoleApprovals(roleDef) :
                     addRole(approval, roleDef)
    /\ UNCHANGED sortVars

FillNext == FillAddRole \/ AdminRemoveRole

FillSpec == SharedRuleInit /\ [][FillNext]_vars

\* C38: the set of admin rules is fixed at construction: in every reachable
\* state the rule hashes that map to the all-bits-set sentinel are exactly
\* the admin rules the constructor wrote, whatever roles are added or
\* removed; no other hash comes to map to the sentinel and no admin rule
\* loses it.
C38_AdminRulesFixed ==
    /\ RuleFlagsOf(AdminRule) = WordMax
    /\ \A h \in DOMAIN ruleHashToRoleFlags :
           ruleHashToRoleFlags[h] = WordMax => h = AdminRule

\* C39: in every reachable state roleIdx2Flag[0 .. numOfActiveRoles - 1]
\* lists the flag of each active role exactly once and nothing else:
\* the listed flags are the bits of activeRoleFlags, no flag is listed twice,
\* numOfActiveRoles is the number of bits set in activeRoleFlags, and the
\* registered role ids map one-to-one onto the active flags.
C39_IndexListsActiveRolesOnce ==
    /\ {roleIdx2Flag[i] : i \in 0..(numOfActiveRoles - 1)} = FlagsOf(activeRoleFlags)
    /\ \A i, j \in 0..(numOfActiveRoles - 1) :
           i # j => roleIdx2Flag[i] # roleIdx2Flag[j]
    /\ numOfActiveRoles = PopCount(activeRoleFlags)
    /\ \A id \in RoleIdWords, other \in RoleIdWords :
           roleId2Flag[id] # 0 /\ id # other
               => roleId2Flag[id] # roleId2Flag[other]
    /\ {roleId2Flag[id] : id \in RoleIdWords} \ {0} = FlagsOf(activeRoleFlags)

\* a role has been added below a senior that is not the last of the index,
\* and a role removed
C39_Witness ==
    /\ retiredFlags # 0
    /\ \E i \in 0..(numOfActiveRoles - 2) :
           /\ roleIdx2Flag[i] >= 2^Cardinality(InitRoleIds)
           /\ BitAnd(roleFlag2JuniorMask[roleIdx2Flag[i + 1]], roleIdx2Flag[i]) # 0

(***************************************************************************)
(* The chart generator's topological sort: DirectedGraph and MinHeap       *)
(***************************************************************************)
\* graphs of MaxNodes nodes; edges run from the first MaxSources to the
\* first MaxLinked of them
MaxNodes == 8
MaxLinked == 6
MaxSources == 4

\* MinHeap.parentIdx
parentIdx(idx) == idx \div 2

\* MinHeap.swap, on the heap object h
swap(h, i, j) ==
    [h EXCEPT !.mapping = [h.mapping EXCEPT ![h.heap[i]] = j,
                                            ![h.heap[j]] = i],
              !.heap = [h.heap EXCEPT ![i] = h.heap[j], ![j] = h.heap[i]]]

\* MinHeap.update; weighting is the closure idx => tempInDeg[idx]
RECURSIVE SiftUp(_, _, _)
SiftUp(h, weighting, i) ==
    IF i > 0 /\ weighting[h.heap[i]] < weighting[h.heap[parentIdx(i)]]
    THEN SiftUp(swap(h, parentIdx(i), i), weighting, parentIdx(i))
    ELSE h
update(h, weighting, elem) ==
    IF elem < 0 \/ elem > MaxNodes
    THEN [h EXCEPT !.error = "Element does not exist"]
    ELSE IF h.mapping[elem] >= h.currentSize
         THEN [h EXCEPT !.error = "Element does not exist"]
         ELSE SiftUp(h, weighting, h.mapping[elem])

\* MinHeap.heapify, with leftIdx and rightIdx
RECURSIVE heapify(_, _, _)
heapify(h, weighting, idx) ==
    LET left == idx * 2 + 1
        right == idx * 2 + 2
        minL == IF left < h.currentSize
                   /\ weighting[h.heap[left]] < weighting[h.heap[idx]]
                THEN left ELSE idx
        minLR == IF right < h.currentSize
                    /\ weighting[h.heap[right]] < weighting[h.heap[minL]]
                 THEN right ELSE minL
    IN IF minLR # idx
       THEN heapify(swap(h, minLR, idx), weighting, minLR)
       ELSE h

\* MinHeap.pop: the popped element and the heap it leaves
pop(h, weighting) ==
    [min |-> h.heap[0],
     heap |-> heapify([swap(h, 0, h.currentSize - 1)
                          EXCEPT !.currentSize = h.currentSize - 1],
                      weighting, 0)]

\* edge lists in which every one of the first MaxLinked nodes is the sink of
\* at most one edge, from one of the first MaxSources nodes, listed by sink:
\* chains, fans, trees, cycles and isolated nodes
GraphInputs ==
    LET Linked == 0..(MaxLinked - 1)
        RECURSIVE EdgesFrom(_, _)
        EdgesFrom(source, sink) ==
            IF sink = MaxLinked THEN <<>>
            ELSE (IF source[sink] = -1 THEN <<>>
                  ELSE << <<source[sink], sink>> >>)
                 \o EdgesFrom(source, sink + 1)
    IN {EdgesFrom(source, 0) :
           source \in {f \in [Linked -> -1..(MaxSources - 1)] :
                          \A n \in Linked : f[n] # n}}

\* new DirectedGraph(MaxNodes, edgeList) and getTopologicalOrder up to its
\* loop: the in-degrees are copied and the heap is built, sorted by weight
\* (Array.prototype.sort is stable); no contract is deployed
TopoInit ==
    /\ \E edgeList \in GraphInputs :
           LET Nodes == 0..(MaxNodes - 1)
               adj == [n \in Nodes |->
                          LET From(e) == e[1] = n
                              out == SelectSeq(edgeList, From)
                          IN [i \in DOMAIN out |-> out[i][2]]]
               inDegree == [n \in Nodes |->
                               LET Into(e) == e[2] = n
                               IN Len(SelectSeq(edgeList, Into))]
               Rank(n) == Cardinality({m \in Nodes :
                              \/ inDegree[m] < inDegree[n]
                              \/ inDegree[m] = inDegree[n] /\ m < n})
           IN /\ adjLists = adj
              /\ tempInDeg = inDegree
              /\ heap = [heap |-> [i \in Nodes |->
                                      CHOOSE n \in Nodes : Rank(n) = i],
                         mapping |-> [n \in Nodes |-> Rank(n)],
                         currentSize |-> MaxNodes,
                         error |-> ""]
    /\ topologicalOrder = <<>>
    /\ sortResult = "running"
    /\ roleId2Flag = [id \in RoleIdWords |-> 0]
    /\ roleIdx2Flag = [i \in 0..WordBits |-> 0]
    /\ roleFlag2Mask = [f \in PureFlags |-> 0]
    /\ roleFlag2JuniorMask = [f \in PureFlags |-> 0]
    /\ freeRoleFlags = 0
    /\ activeRoleFlags = 0
    /\ numOfActiveRoles = 0
    /\ user2Roles = [u \in Addresses |-> 0]
    /\ roleIdToNOAssignments = [id \in RoleIdWords |-> 0]
    /\ ruleHashToRoleFlags = <<>>
    /\ blockNumber = 0
    /\ retiredFlags = 0

\* one pass of the loop of getTopologicalOrder, and its return once the
\* heap is empty or the popped node still has an edge into it
getTopologicalOrder ==
    /\ sortResult = "running"
    /\ heap.currentSize > 0
    /\ LET popped == pop(heap, tempInDeg)
           next == popped.min
           RECURSIVE forEach(_, _)
           forEach(st, i) ==
               IF i > Len(adjLists[next]) THEN st
               ELSE LET adjNode == adjLists[next][i]
                        deg == [st.deg EXCEPT ![adjNode] = @ - 1]
                    IN forEach([deg |-> deg,
                                heap |-> update(st.heap, deg, adjNode)], i + 1)
           done == forEach([deg |-> tempInDeg, heap |-> popped.heap], 1)
       IN IF tempInDeg[next] # 0
          THEN /\ sortResult' = "Nothing"
               /\ heap' = popped.heap
               /\ UNCHANGED <<tempInDeg, topologicalOrder>>
          ELSE /\ topologicalOrder' = Append(topologicalOrder, next)
               /\ tempInDeg' = done.deg
               /\ heap' = done.heap
               /\ sortResult' = IF done.heap.error # "" THEN "Error"
                                ELSE IF done.heap.currentSize > 0 THEN "running"
                                ELSE "order"
    /\ UNCHANGED <<adjLists, roleId2Flag, roleFlag2Mask, roleFlag2JuniorMask,
                   roleIdx2Flag, numOfActiveRoles, user2Roles,
                   ruleHashToRoleFlags, roleIdToNOAssignments, activeRoleFlags,
                   freeRoleFlags, blockNumber, retiredFlags>>

TopoNext == getTopologicalOrder

TopoSpec == TopoInit /\ [][TopoNext]_vars

\* C40: the topological sort is correct and complete: getTopologicalOrder
\* returns an order (isDAG is true) for every acyclic graph and Nothing only
\* for a graph with a cycle, and a returned order lists every node once and
\* before all the nodes it has an edge to.
C40_TopologicalSortCorrectAndComplete ==
    LET Nodes == DOMAIN adjLists
        Successors(n) == {adjLists[n][i] : i \in DOMAIN adjLists[n]}
        \* every non-empty set of nodes has a node without an edge into it
        \* from the set
        HasNoCycle == \A S \in SUBSET Nodes :
                       S # {} => \E v \in S : \A u \in S : v \notin Successors(u)
        PlaceOf(n) == CHOOSE i \in DOMAIN topologicalOrder :
                           topologicalOrder[i] = n
    IN /\ sortResult # "Error"
       /\ sortResult = "Nothing" => ~HasNoCycle
       /\ sortResult = "order" =>
              /\ HasNoCycle
              /\ Len(topologicalOrder) = Cardinality(Nodes)
              /\ \A n \in Nodes : \E i \in DOMAIN topologicalOrder :
                     topologicalOrder[i] = n
              /\ \A n \in Nodes : \A m \in Successors(n) :
                     PlaceOf(n) < PlaceOf(m)

====
